---- MODULE Spec2Model ----
(***************************************************************************)
(* A model of the sequencer strip-effect engine                            *)
(* (source/blender/sequencer/intern/effects.cc).                           *)
(*                                                                         *)
(* The engine is a set of independent parts, each given its own            *)
(* specification over its own variables; the variables of the other parts  *)
(* stay at their idle value:                                               *)
(*   SpecLoad   effect registry and the lazy load of a strip's parameters  *)
(*   SpecPrep   allocation of the output and promotion of the inputs       *)
(*   SpecBlend  the blend-mode executor, one statement at a time           *)
(*   SpecSlice  the row-tiled executors run band by band                   *)
(*   SpecRace   threads calling the functions that use the font map         *)
(*   SpecFont   parameter blocks of text and speed strips, the font cache   *)
(*   SpecPixel  one pixel rendered by a cross, alpha-over or speed strip     *)
(*   SpecEquiv  add, subtract and multiply on bytes and on floats           *)
(*   SpecJfa    the jump-flooding passes of the text outline                *)
(*   SpecBlur   the Gaussian blur strip: early-out, kernels, two passes      *)
(*   SpecSpeed  the target frame of a speed strip                           *)
(*   SpecWipe   check_zone of the wipe effect on one pixel                   *)
(*   SpecWrap   character list and word wrapping of a text strip            *)
(*   SpecText   the stages of do_text_effect under the font mutex           *)
(*   SpecEarly  the early-out of solid color, multicam, adjustment, text    *)
(*   SpecMix    a color-mix strip rendered with two strip-level factors     *)
(*   SpecGlow   the glow effect: highlights, blur, compositing              *)
(*   SpecZero   add, subtract, multiply: the early-out and the executor     *)
(*   SpecMap    the frame map of a speed strip over its lifecycle           *)
(***************************************************************************)
EXTENDS Integers, Sequences, FiniteSets, TLC

VARIABLES
  \* ---- registry / lazy load (SpecLoad)
  seq,          \* the strip: [type, blend_mode, not_loaded]
  load_calls,   \* how often the load callback of seq.type has run on the strip
  last_call,    \* the last public call: [op, was_not_loaded, ran_load]
  rval,         \* the handle the last call returned
  num_inputs,   \* the result of the last SEQ_effect_get_num_inputs, or -1
  \* ---- prepare_effect_imbufs (SpecPrep)
  imbufs,       \* the ImBufs behind the input pointers: [byte, float]
  imbufs_in,    \* the same ImBufs as they were when the call was made
  prep,         \* the call: [pc, ibuf1, ibuf2, uninitialized_pixels, out]
  \* ---- apply_blend_function (SpecBlend)
  blend,        \* the call: [pc, fac, i, src1, src2, dst, achannel]
  blend_in,     \* the two inputs as they were when the call was made
  \* ---- row-tiled executors (SpecSlice)
  slice,        \* the render: [effect, fac, factor, xIni, yIni, img, cuts, done, out]
  \* ---- threads at the font map (SpecRace)
  thr,          \* each thread's call: [op, pc, nested]
  mutex,        \* g_font_map.mutex: [owner, count]
  \* ---- parameter blocks, frame maps and fonts (SpecFont)
  strips,       \* each strip: [type, effectdata, not_loaded]
  blocks,       \* the parameter block at each address, or NoBlock
  allocs,       \* addresses of the live frame maps and text runtimes
  blf,          \* the font service: reference count of each font id
  font_map,     \* g_font_map: [file, mem], key -> font id
  font_last,    \* the last operation: [op, ...] of a copy, free or render
  \* ---- one pixel through cross, alpha-over and speed (SpecPixel)
  px,           \* the render: [effect, is_float, fac, ibuf1, ibuf2, pc, ...]
  \* ---- byte and float executors on the same colors (SpecEquiv)
  eqv,          \* the comparison: [effect, c1, c2, pc, byte_out, float_out]
  \* ---- jump flooding of the text outline (SpecJfa)
  jfa,          \* the outline: [size, x0, y0, opaque, outline_width, rect, pc, step_size, flood, other, steps]
  \* ---- Gaussian blur (SpecBlur)
  blur,         \* the render: [size_x, size_y, is_float, ibuf1, pc, early, half_size_x, half_size_y, mid, out]
  \* ---- target frame of the speed effect (SpecSpeed)
  spd,          \* the lookup: [type, has_input, has_fcurve, len, startofs, effect_len, start, fader, interpolate, frame_index, input, pc, target]
  \* ---- coverage of one pixel by a wipe (SpecWipe)
  wipe,         \* the pixel: [wipetype, forward, edgeWidth, flip, tan, xo, yo, pc, x, y, fac, output]
  \* ---- layout of a text into lines (SpecWrap)
  wrap,         \* the layout: [text, wrap_width, image_x, nul_advance, pc, characters, lines]
  \* ---- threads rendering text strips (SpecText)
  txt,          \* each thread's do_text_effect: [pc, flag, stage, writing, log]
  txt_mutex,    \* g_font_map.mutex: [owner, count]
  \* ---- the early-out of the strips without inputs (SpecEarly)
  eout,         \* one query: [type, data, fac, pc, result]
  \* ---- two renders of one color-mix strip (SpecMix)
  mix,          \* [data, ibuf1, ibuf2, fac, out]: fac and out per render
  \* ---- the glow of a float image (SpecGlow)
  glow,         \* [data, fac, inbuf, pc, highlights, outbuf]
  \* ---- add, subtract, multiply: early-out against executor (SpecZero)
  zf,           \* [effect, is_float, fac, ibuf1, ibuf2, pc, early, out]
  \* ---- the frame maps of speed strips in multiply mode (SpecMap)
  map_strips,   \* each strip: [exists, not_loaded, left, right, has_fcurve, frameMap]
  map_heap,     \* the frame maps allocated: their length, 0 for a free address
  map_last      \* the last lookup: [op, strip, frame_index]

loadVars == <<seq, load_calls, last_call, rval, num_inputs>>
prepVars == <<imbufs, imbufs_in, prep>>
blendVars == <<blend, blend_in>>
sliceVars == <<slice>>
raceVars == <<thr, mutex>>
fontVars == <<strips, blocks, allocs, blf, font_map, font_last>>
pixelVars == <<px>>
equivVars == <<eqv>>
jfaVars == <<jfa>>
blurVars == <<blur>>
speedVars == <<spd>>
wipeVars == <<wipe>>
wrapVars == <<wrap>>
textVars == <<txt, txt_mutex>>
earlyVars == <<eout>>
mixVars == <<mix>>
glowVars == <<glow>>
zeroVars == <<zf>>
mapVars == <<map_strips, map_heap, map_last>>

vars == <<loadVars, prepVars, blendVars, sliceVars, raceVars, fontVars, pixelVars, equivVars, jfaVars, blurVars, speedVars, wipeVars, wrapVars, textVars, earlyVars, mixVars, glowVars, zeroVars, mapVars>>

(***************************************************************************)
(* Idle values: what a part's variables hold in the other specifications   *)
(***************************************************************************)

IdleLoad ==
  /\ seq = [type |-> "IMAGE", blend_mode |-> "REPLACE", not_loaded |-> FALSE]
  /\ load_calls = 0
  /\ last_call = [op |-> "none", was_not_loaded |-> FALSE, ran_load |-> 0]
  /\ rval = <<>>
  /\ num_inputs = -1

IdlePrep ==
  /\ imbufs = <<>>
  /\ imbufs_in = <<>>
  /\ prep = [pc |-> "idle"]

IdleBlend ==
  /\ blend = [pc |-> "idle"]
  /\ blend_in = <<>>

IdleSlice == slice = [effect |-> "none"]

IdleRace ==
  /\ thr = <<>>
  /\ mutex = [owner |-> "none", count |-> 0]

IdleFont ==
  /\ strips = <<>>
  /\ blocks = <<>>
  /\ allocs = {}
  /\ blf = <<>>
  /\ font_map = [file |-> <<>>, mem |-> <<>>]
  /\ font_last = [op |-> "none"]

IdlePixel == px = [pc |-> "idle"]

IdleEquiv == eqv = [pc |-> "idle"]

IdleJfa == jfa = [pc |-> "idle"]

IdleBlur == blur = [pc |-> "idle"]

IdleSpeed == spd = [pc |-> "idle"]

IdleWipe == wipe = [pc |-> "idle"]

IdleWrap == wrap = [pc |-> "idle"]

IdleText ==
  /\ txt = <<>>
  /\ txt_mutex = [owner |-> "none", count |-> 0]

IdleEarly ==
  eout = <<>>

IdleMix ==
  mix = <<>>

IdleGlow ==
  glow = [pc |-> "idle"]

IdleZero ==
  zf = [pc |-> "idle"]

IdleMap ==
  /\ map_strips = <<>>
  /\ map_heap = <<>>
  /\ map_last = [op |-> "none"]

\* ---- frames: begin
\* What a step of SpecLoad leaves alone, and where it starts.
othersLoad == <<prepVars, blendVars, sliceVars, raceVars, fontVars, pixelVars, equivVars, jfaVars, blurVars, speedVars, wipeVars, wrapVars, textVars, earlyVars, mixVars, glowVars, zeroVars, mapVars>>
OthersIdleLoad == IdlePrep /\ IdleBlend /\ IdleSlice /\ IdleRace /\ IdleFont /\ IdlePixel /\ IdleEquiv /\ IdleJfa /\ IdleBlur /\ IdleSpeed /\ IdleWipe /\ IdleWrap /\ IdleText /\ IdleEarly /\ IdleMix /\ IdleGlow /\ IdleZero /\ IdleMap

\* What a step of SpecPrep leaves alone, and where it starts.
othersPrep == <<loadVars, blendVars, sliceVars, raceVars, fontVars, pixelVars, equivVars, jfaVars, blurVars, speedVars, wipeVars, wrapVars, textVars, earlyVars, mixVars, glowVars, zeroVars, mapVars>>
OthersIdlePrep == IdleLoad /\ IdleBlend /\ IdleSlice /\ IdleRace /\ IdleFont /\ IdlePixel /\ IdleEquiv /\ IdleJfa /\ IdleBlur /\ IdleSpeed /\ IdleWipe /\ IdleWrap /\ IdleText /\ IdleEarly /\ IdleMix /\ IdleGlow /\ IdleZero /\ IdleMap

\* What a step of SpecBlend leaves alone, and where it starts.
othersBlend == <<loadVars, prepVars, sliceVars, raceVars, fontVars, pixelVars, equivVars, jfaVars, blurVars, speedVars, wipeVars, wrapVars, textVars, earlyVars, mixVars, glowVars, zeroVars, mapVars>>
OthersIdleBlend == IdleLoad /\ IdlePrep /\ IdleSlice /\ IdleRace /\ IdleFont /\ IdlePixel /\ IdleEquiv /\ IdleJfa /\ IdleBlur /\ IdleSpeed /\ IdleWipe /\ IdleWrap /\ IdleText /\ IdleEarly /\ IdleMix /\ IdleGlow /\ IdleZero /\ IdleMap

\* What a step of SpecSlice leaves alone, and where it starts.
othersSlice == <<loadVars, prepVars, blendVars, raceVars, fontVars, pixelVars, equivVars, jfaVars, blurVars, speedVars, wipeVars, wrapVars, textVars, earlyVars, mixVars, glowVars, zeroVars, mapVars>>
OthersIdleSlice == IdleLoad /\ IdlePrep /\ IdleBlend /\ IdleRace /\ IdleFont /\ IdlePixel /\ IdleEquiv /\ IdleJfa /\ IdleBlur /\ IdleSpeed /\ IdleWipe /\ IdleWrap /\ IdleText /\ IdleEarly /\ IdleMix /\ IdleGlow /\ IdleZero /\ IdleMap

\* What a step of SpecRace leaves alone, and where it starts.
othersRace == <<loadVars, prepVars, blendVars, sliceVars, fontVars, pixelVars, equivVars, jfaVars, blurVars, speedVars, wipeVars, wrapVars, textVars, earlyVars, mixVars, glowVars, zeroVars, mapVars>>
OthersIdleRace == IdleLoad /\ IdlePrep /\ IdleBlend /\ IdleSlice /\ IdleFont /\ IdlePixel /\ IdleEquiv /\ IdleJfa /\ IdleBlur /\ IdleSpeed /\ IdleWipe /\ IdleWrap /\ IdleText /\ IdleEarly /\ IdleMix /\ IdleGlow /\ IdleZero /\ IdleMap

\* What a step of SpecFont leaves alone, and where it starts.
othersFont == <<loadVars, prepVars, blendVars, sliceVars, raceVars, pixelVars, equivVars, jfaVars, blurVars, speedVars, wipeVars, wrapVars, textVars, earlyVars, mixVars, glowVars, zeroVars, mapVars>>
OthersIdleFont == IdleLoad /\ IdlePrep /\ IdleBlend /\ IdleSlice /\ IdleRace /\ IdlePixel /\ IdleEquiv /\ IdleJfa /\ IdleBlur /\ IdleSpeed /\ IdleWipe /\ IdleWrap /\ IdleText /\ IdleEarly /\ IdleMix /\ IdleGlow /\ IdleZero /\ IdleMap

\* What a step of SpecPixel leaves alone, and where it starts.
othersPixel == <<loadVars, prepVars, blendVars, sliceVars, raceVars, fontVars, equivVars, jfaVars, blurVars, speedVars, wipeVars, wrapVars, textVars, earlyVars, mixVars, glowVars, zeroVars, mapVars>>
OthersIdlePixel == IdleLoad /\ IdlePrep /\ IdleBlend /\ IdleSlice /\ IdleRace /\ IdleFont /\ IdleEquiv /\ IdleJfa /\ IdleBlur /\ IdleSpeed /\ IdleWipe /\ IdleWrap /\ IdleText /\ IdleEarly /\ IdleMix /\ IdleGlow /\ IdleZero /\ IdleMap

\* What a step of SpecEquiv leaves alone, and where it starts.
othersEquiv == <<loadVars, prepVars, blendVars, sliceVars, raceVars, fontVars, pixelVars, jfaVars, blurVars, speedVars, wipeVars, wrapVars, textVars, earlyVars, mixVars, glowVars, zeroVars, mapVars>>
OthersIdleEquiv == IdleLoad /\ IdlePrep /\ IdleBlend /\ IdleSlice /\ IdleRace /\ IdleFont /\ IdlePixel /\ IdleJfa /\ IdleBlur /\ IdleSpeed /\ IdleWipe /\ IdleWrap /\ IdleText /\ IdleEarly /\ IdleMix /\ IdleGlow /\ IdleZero /\ IdleMap

\* What a step of SpecJfa leaves alone, and where it starts.
othersJfa == <<loadVars, prepVars, blendVars, sliceVars, raceVars, fontVars, pixelVars, equivVars, blurVars, speedVars, wipeVars, wrapVars, textVars, earlyVars, mixVars, glowVars, zeroVars, mapVars>>
OthersIdleJfa == IdleLoad /\ IdlePrep /\ IdleBlend /\ IdleSlice /\ IdleRace /\ IdleFont /\ IdlePixel /\ IdleEquiv /\ IdleBlur /\ IdleSpeed /\ IdleWipe /\ IdleWrap /\ IdleText /\ IdleEarly /\ IdleMix /\ IdleGlow /\ IdleZero /\ IdleMap

\* What a step of SpecBlur leaves alone, and where it starts.
othersBlur == <<loadVars, prepVars, blendVars, sliceVars, raceVars, fontVars, pixelVars, equivVars, jfaVars, speedVars, wipeVars, wrapVars, textVars, earlyVars, mixVars, glowVars, zeroVars, mapVars>>
OthersIdleBlur == IdleLoad /\ IdlePrep /\ IdleBlend /\ IdleSlice /\ IdleRace /\ IdleFont /\ IdlePixel /\ IdleEquiv /\ IdleJfa /\ IdleSpeed /\ IdleWipe /\ IdleWrap /\ IdleText /\ IdleEarly /\ IdleMix /\ IdleGlow /\ IdleZero /\ IdleMap

\* What a step of SpecSpeed leaves alone, and where it starts.
othersSpeed == <<loadVars, prepVars, blendVars, sliceVars, raceVars, fontVars, pixelVars, equivVars, jfaVars, blurVars, wipeVars, wrapVars, textVars, earlyVars, mixVars, glowVars, zeroVars, mapVars>>
OthersIdleSpeed == IdleLoad /\ IdlePrep /\ IdleBlend /\ IdleSlice /\ IdleRace /\ IdleFont /\ IdlePixel /\ IdleEquiv /\ IdleJfa /\ IdleBlur /\ IdleWipe /\ IdleWrap /\ IdleText /\ IdleEarly /\ IdleMix /\ IdleGlow /\ IdleZero /\ IdleMap

\* What a step of SpecWipe leaves alone, and where it starts.
othersWipe == <<loadVars, prepVars, blendVars, sliceVars, raceVars, fontVars, pixelVars, equivVars, jfaVars, blurVars, speedVars, wrapVars, textVars, earlyVars, mixVars, glowVars, zeroVars, mapVars>>
OthersIdleWipe == IdleLoad /\ IdlePrep /\ IdleBlend /\ IdleSlice /\ IdleRace /\ IdleFont /\ IdlePixel /\ IdleEquiv /\ IdleJfa /\ IdleBlur /\ IdleSpeed /\ IdleWrap /\ IdleText /\ IdleEarly /\ IdleMix /\ IdleGlow /\ IdleZero /\ IdleMap

\* What a step of SpecWrap leaves alone, and where it starts.
othersWrap == <<loadVars, prepVars, blendVars, sliceVars, raceVars, fontVars, pixelVars, equivVars, jfaVars, blurVars, speedVars, wipeVars, textVars, earlyVars, mixVars, glowVars, zeroVars, mapVars>>
OthersIdleWrap == IdleLoad /\ IdlePrep /\ IdleBlend /\ IdleSlice /\ IdleRace /\ IdleFont /\ IdlePixel /\ IdleEquiv /\ IdleJfa /\ IdleBlur /\ IdleSpeed /\ IdleWipe /\ IdleText /\ IdleEarly /\ IdleMix /\ IdleGlow /\ IdleZero /\ IdleMap

\* What a step of SpecText leaves alone, and where it starts.
othersText == <<loadVars, prepVars, blendVars, sliceVars, raceVars, fontVars, pixelVars, equivVars, jfaVars, blurVars, speedVars, wipeVars, wrapVars, earlyVars, mixVars, glowVars, zeroVars, mapVars>>
OthersIdleText == IdleLoad /\ IdlePrep /\ IdleBlend /\ IdleSlice /\ IdleRace /\ IdleFont /\ IdlePixel /\ IdleEquiv /\ IdleJfa /\ IdleBlur /\ IdleSpeed /\ IdleWipe /\ IdleWrap /\ IdleEarly /\ IdleMix /\ IdleGlow /\ IdleZero /\ IdleMap

\* What a step of SpecEarly leaves alone, and where it starts.
othersEarly == <<loadVars, prepVars, blendVars, sliceVars, raceVars, fontVars, pixelVars, equivVars, jfaVars, blurVars, speedVars, wipeVars, wrapVars, textVars, mixVars, glowVars, zeroVars, mapVars>>
OthersIdleEarly == IdleLoad /\ IdlePrep /\ IdleBlend /\ IdleSlice /\ IdleRace /\ IdleFont /\ IdlePixel /\ IdleEquiv /\ IdleJfa /\ IdleBlur /\ IdleSpeed /\ IdleWipe /\ IdleWrap /\ IdleText /\ IdleMix /\ IdleGlow /\ IdleZero /\ IdleMap

\* What a step of SpecMix leaves alone, and where it starts.
othersMix == <<loadVars, prepVars, blendVars, sliceVars, raceVars, fontVars, pixelVars, equivVars, jfaVars, blurVars, speedVars, wipeVars, wrapVars, textVars, earlyVars, glowVars, zeroVars, mapVars>>
OthersIdleMix == IdleLoad /\ IdlePrep /\ IdleBlend /\ IdleSlice /\ IdleRace /\ IdleFont /\ IdlePixel /\ IdleEquiv /\ IdleJfa /\ IdleBlur /\ IdleSpeed /\ IdleWipe /\ IdleWrap /\ IdleText /\ IdleEarly /\ IdleGlow /\ IdleZero /\ IdleMap

\* What a step of SpecGlow leaves alone, and where it starts.
othersGlow == <<loadVars, prepVars, blendVars, sliceVars, raceVars, fontVars, pixelVars, equivVars, jfaVars, blurVars, speedVars, wipeVars, wrapVars, textVars, earlyVars, mixVars, zeroVars, mapVars>>
OthersIdleGlow == IdleLoad /\ IdlePrep /\ IdleBlend /\ IdleSlice /\ IdleRace /\ IdleFont /\ IdlePixel /\ IdleEquiv /\ IdleJfa /\ IdleBlur /\ IdleSpeed /\ IdleWipe /\ IdleWrap /\ IdleText /\ IdleEarly /\ IdleMix /\ IdleZero /\ IdleMap

\* What a step of SpecZero leaves alone, and where it starts.
othersZero == <<loadVars, prepVars, blendVars, sliceVars, raceVars, fontVars, pixelVars, equivVars, jfaVars, blurVars, speedVars, wipeVars, wrapVars, textVars, earlyVars, mixVars, glowVars, mapVars>>
OthersIdleZero == IdleLoad /\ IdlePrep /\ IdleBlend /\ IdleSlice /\ IdleRace /\ IdleFont /\ IdlePixel /\ IdleEquiv /\ IdleJfa /\ IdleBlur /\ IdleSpeed /\ IdleWipe /\ IdleWrap /\ IdleText /\ IdleEarly /\ IdleMix /\ IdleGlow /\ IdleMap

\* What a step of SpecMap leaves alone, and where it starts.
othersMap == <<loadVars, prepVars, blendVars, sliceVars, raceVars, fontVars, pixelVars, equivVars, jfaVars, blurVars, speedVars, wipeVars, wrapVars, textVars, earlyVars, mixVars, glowVars, zeroVars>>
OthersIdleMap == IdleLoad /\ IdlePrep /\ IdleBlend /\ IdleSlice /\ IdleRace /\ IdleFont /\ IdlePixel /\ IdleEquiv /\ IdleJfa /\ IdleBlur /\ IdleSpeed /\ IdleWipe /\ IdleWrap /\ IdleText /\ IdleEarly /\ IdleMix /\ IdleGlow /\ IdleZero

\* ---- frames: end

(***************************************************************************)
(* Effect registry                                                         *)
(***************************************************************************)

\* Strip types that carry the SEQ_TYPE_EFFECT bit and may be a strip's type.
EffectTypes ==
  {"CROSS", "ADD", "SUB", "ALPHAOVER", "ALPHAUNDER", "GAMCROSS", "MUL",
   "OVERDROP", "WIPE", "GLOW", "TRANSFORM", "COLOR", "SPEED", "MULTICAM",
   "ADJUSTMENT", "GAUSSIAN_BLUR", "TEXT", "COLORMIX"}

\* The blend-mode cases of get_sequence_effect_impl that share one entry.
BlendModeTypes ==
  {"SCREEN", "OVERLAY", "COLOR_BURN", "LINEAR_BURN", "DARKEN", "LIGHTEN",
   "DODGE", "SOFT_LIGHT", "HARD_LIGHT", "PIN_LIGHT", "LIN_LIGHT",
   "VIVID_LIGHT", "BLEND_COLOR", "HUE", "SATURATION", "VALUE", "DIFFERENCE",
   "EXCLUSION"}

\* Every type identifier with a case in the switch of get_sequence_effect_impl.
RegisteredTypes == EffectTypes \cup BlendModeTypes

\* Type identifiers without a case in the switch: plain strips and junk.
UnknownTypes == {"IMAGE", "MOVIE", "SOUND_RAM", "UNKNOWN_99"}

\* The values of a strip's blend_mode the model draws from: 0 (replace), and
\* blend modes with a case of their own or in the shared blend-mode case.
BlendModes == {"REPLACE", "CROSS", "ALPHAOVER", "SCREEN"}

\* The handle before the switch: the defaults every case starts from.
DefaultHandle ==
  [multithreaded |-> FALSE, supports_mask |-> FALSE, init |-> "init_noop",
   num_inputs |-> 2, load |-> "load_noop", free |-> "free_noop",
   early_out |-> "early_out_noop", get_default_fac |-> "get_default_fac_noop",
   execute |-> "nullptr", init_execution |-> "init_execution",
   execute_slice |-> "nullptr", copy |-> "nullptr"]

\* The switch of get_sequence_effect_impl: the handle of each case.
effect_switch(seq_type) ==
  CASE seq_type = "CROSS" ->
         [DefaultHandle EXCEPT !.multithreaded = TRUE,
            !.execute_slice = "do_cross_effect", !.early_out = "early_out_fade",
            !.get_default_fac = "get_default_fac_fade"]
    [] seq_type = "GAMCROSS" ->
         [DefaultHandle EXCEPT !.multithreaded = TRUE,
            !.early_out = "early_out_fade",
            !.get_default_fac = "get_default_fac_fade",
            !.execute_slice = "do_gammacross_effect"]
    [] seq_type = "ADD" ->
         [DefaultHandle EXCEPT !.multithreaded = TRUE,
            !.execute_slice = "do_add_effect",
            !.early_out = "early_out_mul_input2"]
    [] seq_type = "SUB" ->
         [DefaultHandle EXCEPT !.multithreaded = TRUE,
            !.execute_slice = "do_sub_effect",
            !.early_out = "early_out_mul_input2"]
    [] seq_type = "MUL" ->
         [DefaultHandle EXCEPT !.multithreaded = TRUE,
            !.execute_slice = "do_mul_effect",
            !.early_out = "early_out_mul_input2"]
    [] seq_type \in BlendModeTypes ->
         [DefaultHandle EXCEPT !.multithreaded = TRUE,
            !.execute_slice = "do_blend_mode_effect",
            !.early_out = "early_out_mul_input2"]
    [] seq_type = "COLORMIX" ->
         [DefaultHandle EXCEPT !.multithreaded = TRUE,
            !.init = "init_colormix_effect", !.free = "free_effect_default",
            !.copy = "copy_effect_default",
            !.execute_slice = "do_colormix_effect",
            !.early_out = "early_out_mul_input2"]
    [] seq_type = "ALPHAOVER" ->
         [DefaultHandle EXCEPT !.multithreaded = TRUE,
            !.init = "init_alpha_over_or_under",
            !.execute_slice = "do_alphaover_effect",
            !.early_out = "early_out_mul_input1"]
    [] seq_type = "OVERDROP" ->
         [DefaultHandle EXCEPT !.multithreaded = TRUE,
            !.execute_slice = "do_overdrop_effect"]
    [] seq_type = "ALPHAUNDER" ->
         [DefaultHandle EXCEPT !.multithreaded = TRUE,
            !.init = "init_alpha_over_or_under",
            !.execute_slice = "do_alphaunder_effect"]
    [] seq_type = "WIPE" ->
         [DefaultHandle EXCEPT !.init = "init_wipe_effect", !.num_inputs = 2,
            !.free = "free_wipe_effect", !.copy = "copy_wipe_effect",
            !.early_out = "early_out_fade",
            !.get_default_fac = "get_default_fac_fade",
            !.execute = "do_wipe_effect"]
    [] seq_type = "GLOW" ->
         [DefaultHandle EXCEPT !.init = "init_glow_effect", !.num_inputs = 1,
            !.free = "free_glow_effect", !.copy = "copy_glow_effect",
            !.execute = "do_glow_effect"]
    [] seq_type = "TRANSFORM" ->
         [DefaultHandle EXCEPT !.multithreaded = TRUE,
            !.init = "init_transform_effect", !.num_inputs = 1,
            !.free = "free_transform_effect", !.copy = "copy_transform_effect",
            !.execute_slice = "do_transform_effect"]
    [] seq_type = "SPEED" ->
         [DefaultHandle EXCEPT !.init = "init_speed_effect", !.num_inputs = 1,
            !.load = "load_speed_effect", !.free = "free_speed_effect",
            !.copy = "copy_speed_effect", !.execute = "do_speed_effect",
            !.early_out = "early_out_speed"]
    [] seq_type = "COLOR" ->
         [DefaultHandle EXCEPT !.init = "init_solid_color", !.num_inputs = 0,
            !.early_out = "early_out_color", !.free = "free_solid_color",
            !.copy = "copy_solid_color", !.execute = "do_solid_color"]
    [] seq_type = "MULTICAM" ->
         [DefaultHandle EXCEPT !.num_inputs = 0,
            !.early_out = "early_out_multicam", !.execute = "do_multicam"]
    [] seq_type = "ADJUSTMENT" ->
         [DefaultHandle EXCEPT !.supports_mask = TRUE, !.num_inputs = 0,
            !.early_out = "early_out_adjustment", !.execute = "do_adjustment"]
    [] seq_type = "GAUSSIAN_BLUR" ->
         [DefaultHandle EXCEPT !.init = "init_gaussian_blur_effect",
            !.num_inputs = 1, !.free = "free_gaussian_blur_effect",
            !.copy = "copy_gaussian_blur_effect",
            !.early_out = "early_out_gaussian_blur",
            !.execute = "do_gaussian_blur_effect"]
    [] seq_type = "TEXT" ->
         [DefaultHandle EXCEPT !.num_inputs = 0, !.init = "init_text_effect",
            !.free = "free_text_effect", !.load = "load_text_effect",
            !.copy = "copy_text_effect", !.early_out = "early_out_text",
            !.execute = "do_text_effect"]
    [] OTHER -> DefaultHandle

\* A bug to compare with: a tiled executor registered without multithreaded.
get_sequence_effect_impl_no_flag(seq_type) ==
  [effect_switch(seq_type) EXCEPT !.multithreaded = FALSE]

\* static SeqEffectHandle get_sequence_effect_impl(int seq_type)
get_sequence_effect_impl(seq_type) == effect_switch(seq_type)

\* SeqEffectHandle rval = {false, false, nullptr}: every callback is null.
NullHandle ==
  [multithreaded |-> FALSE, supports_mask |-> FALSE, init |-> "nullptr",
   num_inputs |-> -1, load |-> "nullptr", free |-> "nullptr",
   early_out |-> "nullptr", get_default_fac |-> "nullptr",
   execute |-> "nullptr", init_execution |-> "nullptr",
   execute_slice |-> "nullptr", copy |-> "nullptr"]

\* int SEQ_effect_get_num_inputs(int seq_type)
SEQ_effect_get_num_inputs_of(h) ==
  IF h.execute # "nullptr"
       \/ (h.execute_slice # "nullptr" /\ h.init_execution # "nullptr")
    THEN h.num_inputs
    ELSE 0

(***************************************************************************)
(* Lazy load of a strip's parameter block                                  *)
(***************************************************************************)

MaxCalls == 3

NoCall == [op |-> "none", was_not_loaded |-> FALSE, ran_load |-> 0]

InitLoad ==
  /\ seq \in [type : EffectTypes \cup {"IMAGE"}, blend_mode : BlendModes,
              not_loaded : BOOLEAN]
  /\ load_calls = 0
  /\ last_call = NoCall
  /\ rval = NullHandle
  /\ num_inputs = -1
  /\ OthersIdleLoad

\* A bug to compare with: the flag is left set after the load.
SEQ_effect_handle_get_keeps_flag ==
  /\ load_calls < MaxCalls
  /\ IF seq.type \in EffectTypes
       THEN /\ rval' = get_sequence_effect_impl(seq.type)
            /\ load_calls' = load_calls + (IF seq.not_loaded THEN 1 ELSE 0)
            /\ last_call' = [op |-> "handle_get",
                             was_not_loaded |-> seq.not_loaded,
                             ran_load |-> IF seq.not_loaded THEN 1 ELSE 0]
            /\ seq' = seq
       ELSE /\ rval' = NullHandle
            /\ last_call' = [op |-> "handle_get",
                             was_not_loaded |-> seq.not_loaded, ran_load |-> 0]
            /\ UNCHANGED <<seq, load_calls>>
  /\ UNCHANGED num_inputs

\* SeqEffectHandle SEQ_effect_handle_get(Sequence *seq)
SEQ_effect_handle_get ==
  /\ load_calls < MaxCalls
  /\ IF seq.type \in EffectTypes
       THEN /\ rval' = get_sequence_effect_impl(seq.type)
            /\ load_calls' = load_calls + (IF seq.not_loaded THEN 1 ELSE 0)
            /\ last_call' = [op |-> "handle_get",
                             was_not_loaded |-> seq.not_loaded,
                             ran_load |-> IF seq.not_loaded THEN 1 ELSE 0]
            /\ seq' = [seq EXCEPT !.not_loaded = FALSE]
       ELSE /\ rval' = NullHandle
            /\ last_call' = [op |-> "handle_get",
                             was_not_loaded |-> seq.not_loaded, ran_load |-> 0]
            /\ UNCHANGED <<seq, load_calls>>
  /\ UNCHANGED num_inputs

\* SeqEffectHandle seq_effect_get_sequence_blend(Sequence *seq)
seq_effect_get_sequence_blend ==
  /\ load_calls < MaxCalls
  /\ IF seq.blend_mode # "REPLACE"
       THEN /\ rval' = get_sequence_effect_impl(seq.blend_mode)
            \* the load of the strip's type, then the load of the blend mode
            /\ load_calls' = load_calls + (IF seq.not_loaded THEN 1 ELSE 0)
            /\ last_call' = [op |-> "sequence_blend",
                             was_not_loaded |-> seq.not_loaded,
                             ran_load |-> IF seq.not_loaded THEN 1 ELSE 0]
            /\ seq' = [seq EXCEPT !.not_loaded = FALSE]
       ELSE /\ rval' = NullHandle
            /\ last_call' = [op |-> "sequence_blend",
                             was_not_loaded |-> seq.not_loaded, ran_load |-> 0]
            /\ UNCHANGED <<seq, load_calls>>
  /\ UNCHANGED num_inputs

\* int SEQ_effect_get_num_inputs(int seq_type), for any type identifier
SEQ_effect_get_num_inputs ==
  \E seq_type \in RegisteredTypes \cup UnknownTypes :
    /\ rval' = get_sequence_effect_impl(seq_type)
    /\ num_inputs' = SEQ_effect_get_num_inputs_of(rval')
    /\ last_call' = [op |-> seq_type, was_not_loaded |-> seq.not_loaded,
                     ran_load |-> 0]
    /\ UNCHANGED <<seq, load_calls>>

NextLoad ==
  \/ SEQ_effect_handle_get /\ UNCHANGED othersLoad
  \/ seq_effect_get_sequence_blend /\ UNCHANGED othersLoad
  \/ SEQ_effect_get_num_inputs /\ UNCHANGED othersLoad

SpecLoad == InitLoad /\ [][NextLoad]_vars

IsEffectStrip == seq.type \in EffectTypes

\* The handle the last call returned is that of strip type t.
HandleOfType(t) ==
  \/ last_call.op = t
  \/ last_call.op = "handle_get" /\ seq.type = t

\* Whether a handle is that of an effect run as one call on the whole
\* image: an executor, no executor for row bands, multithreaded not set.
WholeImageHandle(h) ==
  /\ h.execute # "nullptr"
  /\ h.execute_slice = "nullptr"
  /\ ~h.multithreaded

\* C26: the handles of wipe, glow, transform, speed, solid color, multicam,
\* adjustment and text carry a whole-image executor, no row-tiled executor
\* and multithreaded = false.
C26_NotTileCapable ==
  \A t \in {"WIPE", "GLOW", "TRANSFORM", "SPEED", "COLOR", "MULTICAM",
            "ADJUSTMENT", "TEXT"} :
    HandleOfType(t) => WholeImageHandle(rval)

\* What does hold: the seven of them other than transform, and the
\* Gaussian blur, are registered so; transform has a row-tiled executor and
\* multithreaded set.
NotTileCapableButTransform ==
  /\ \A t \in {"WIPE", "GLOW", "SPEED", "COLOR", "MULTICAM", "ADJUSTMENT",
               "TEXT", "GAUSSIAN_BLUR"} :
       HandleOfType(t) => WholeImageHandle(rval)
  /\ HandleOfType("TRANSFORM") =>
       /\ rval.execute = "nullptr"
       /\ rval.execute_slice = "do_transform_effect"
       /\ rval.multithreaded

\* C1 as stated: on an effect strip, the first call of either function made
\* while SEQ_EFFECT_NOT_LOADED is set runs the load callback and clears the
\* flag.
C1_FirstCallLoads ==
  (IsEffectStrip /\ last_call.op \in {"handle_get", "sequence_blend"}
     /\ last_call.was_not_loaded)
    => (last_call.ran_load = 1 /\ ~seq.not_loaded)

\* C1, amended: on an effect strip the load callback runs at most once, and
\* only while the flag is set: a SEQ_effect_handle_get call, or a
\* seq_effect_get_sequence_blend call with a blend mode other than 0, made
\* while the flag is set runs it once and clears the flag; a
\* seq_effect_get_sequence_blend call with blend mode 0 runs no load and
\* leaves the flag as it was; no call made with the flag clear runs it.
C1_LoadOnce ==
  IsEffectStrip =>
    /\ load_calls <= 1
    /\ (load_calls = 1 => ~seq.not_loaded)
    /\ (last_call.op = "handle_get"
          \/ (last_call.op = "sequence_blend" /\ seq.blend_mode # "REPLACE"))
        => /\ ~seq.not_loaded
           /\ last_call.ran_load = (IF last_call.was_not_loaded THEN 1 ELSE 0)
    /\ (last_call.op = "sequence_blend" /\ seq.blend_mode = "REPLACE")
        => /\ last_call.ran_load = 0
           /\ seq.not_loaded = last_call.was_not_loaded

\* A text strip was loaded by an earlier call, and a later call loaded nothing.
C1_Witness ==
  /\ seq.type = "TEXT"
  /\ load_calls = 1
  /\ last_call.op = "sequence_blend"
  /\ ~last_call.was_not_loaded
  /\ last_call.ran_load = 0

\* C2: the handle of a registered type has exactly one of execute and
\* execute_slice, and multithreaded exactly with execute_slice; the handle of
\* an unknown type has neither, and SEQ_effect_get_num_inputs reports 0.
C2_OneExecutor ==
  /\ last_call.op \in RegisteredTypes =>
       /\ (rval.execute # "nullptr") # (rval.execute_slice # "nullptr")
       /\ rval.multithreaded = (rval.execute_slice # "nullptr")
  /\ last_call.op \in UnknownTypes =>
       /\ rval.execute = "nullptr"
       /\ rval.execute_slice = "nullptr"
       /\ num_inputs = 0

\* The handle of an unknown type was asked for its inputs.
C2_Witness ==
  /\ last_call.op = "UNKNOWN_99"
  /\ num_inputs = 0
  /\ rval.execute = "nullptr"

(***************************************************************************)
(* prepare_effect_imbufs                                                   *)
(***************************************************************************)

\* Pointers to the two ImBufs of the model; 0 is nullptr.
ImBufPtrs == {1, 2}

\* The pixel data an input ImBuf arrives with: a byte buffer, a float buffer
\* or both.
InputData ==
  {[byte |-> TRUE, float |-> FALSE], [byte |-> FALSE, float |-> TRUE],
   [byte |-> TRUE, float |-> TRUE]}

\* Image sizes of the render context the model draws from.
RectSizes == {1, 2}

\* seq_imbuf_to_sequencer_space(scene, ibuf, true) on an ImBuf without float
\* data: the float buffer is made from the byte buffer, which is freed.
seq_imbuf_to_sequencer_space(ibuf) ==
  IF ~ibuf.float /\ ibuf.byte THEN [byte |-> FALSE, float |-> TRUE] ELSE ibuf

\* IMB_rect_from_float(ibuf): a byte buffer is made from the float buffer,
\* when there is one.
IMB_rect_from_float(ibuf) ==
  IF ibuf.float THEN [ibuf EXCEPT !.byte = TRUE] ELSE ibuf

\* IMB_allocImBuf(x, y, 32, flags)
IMB_allocImBuf(x, y, rectfloat, base_flags) ==
  [x |-> x, y |-> y, byte |-> ~rectfloat, float |-> rectfloat,
   uninitialized |-> base_flags, float_colorspace |-> FALSE, metadata |-> 0]

HasFloat(ptr) == ptr # 0 /\ imbufs[ptr].float

InitPrep ==
  /\ imbufs \in [ImBufPtrs -> InputData]
  /\ imbufs_in = imbufs
  /\ \E ibuf1 \in {0} \cup ImBufPtrs, ibuf2 \in {0} \cup ImBufPtrs,
        u \in BOOLEAN, x \in RectSizes :
        prep = [pc |-> "call", ibuf1 |-> ibuf1, ibuf2 |-> ibuf2,
                uninitialized_pixels |-> u, rectx |-> x, recty |-> 1,
                out |-> <<>>]
  /\ OthersIdlePrep

\* The inputs after the promotion to the output's representation.
PromotedImbufs(out_float) ==
  [p \in ImBufPtrs |->
     IF p \in {prep.ibuf1, prep.ibuf2}
       THEN IF out_float
              THEN IF ~imbufs[p].float
                     THEN seq_imbuf_to_sequencer_space(imbufs[p])
                     ELSE imbufs[p]
              ELSE IF ~imbufs[p].byte
                     THEN IMB_rect_from_float(imbufs[p])
                     ELSE imbufs[p]
       ELSE imbufs[p]]

\* A bug to compare with: only the first input decides the output's format.
prepare_effect_imbufs_first_only ==
  /\ prep.pc = "call"
  /\ LET out_float == HasFloat(prep.ibuf1)
         out == IMB_allocImBuf(prep.rectx, prep.recty, out_float,
                               prep.uninitialized_pixels)
     IN /\ imbufs' = PromotedImbufs(out_float)
        /\ prep' = [prep EXCEPT !.pc = "done", !.out = out]
  /\ UNCHANGED imbufs_in

\* static ImBuf *prepare_effect_imbufs(context, ibuf1, ibuf2, uninitialized_pixels)
prepare_effect_imbufs ==
  /\ prep.pc = "call"
  /\ LET out_float ==
           IF prep.ibuf1 = 0 /\ prep.ibuf2 = 0
             THEN FALSE
             ELSE HasFloat(prep.ibuf1) \/ HasFloat(prep.ibuf2)
         out == IMB_allocImBuf(prep.rectx, prep.recty, out_float,
                               prep.uninitialized_pixels)
     IN /\ imbufs' = PromotedImbufs(out_float)
        /\ prep' = [prep EXCEPT !.pc = "done",
                      !.out = [out EXCEPT
                                 !.float_colorspace = out_float,
                                 !.metadata =
                                   IF prep.ibuf1 # 0 /\ prep.ibuf1 = prep.ibuf2
                                     THEN prep.ibuf1 ELSE 0]]
  /\ UNCHANGED imbufs_in

NextPrep ==
  \/ prepare_effect_imbufs /\ UNCHANGED othersPrep

SpecPrep == InitPrep /\ [][NextPrep]_vars

\* The inputs supplied to the call: the non-null pointers.
Supplied == {prep.ibuf1, prep.ibuf2} \ {0}

\* C3: the output is float exactly when a supplied input had float data, and
\* byte otherwise (also without inputs); on return every supplied input has
\* pixel data in the output's representation.
C3_OutputFormat ==
  prep.pc = "done" =>
    /\ prep.out.float = (\E p \in Supplied : imbufs_in[p].float)
    /\ prep.out.byte = ~prep.out.float
    /\ \A p \in Supplied :
         /\ prep.out.float => imbufs[p].float
         /\ prep.out.byte => imbufs[p].byte

\* A byte-only first input was promoted because the second input is float.
C3_Witness ==
  /\ prep.pc = "done"
  /\ prep.ibuf1 = 1 /\ prep.ibuf2 = 2
  /\ imbufs_in[1] = [byte |-> TRUE, float |-> FALSE]
  /\ imbufs_in[2].float
  /\ prep.out.float
  /\ imbufs[1].float

(***************************************************************************)
(* Blend-mode and color-mix executors: apply_blend_function                *)
(***************************************************************************)

\* Factors are multiples of 1 / 2^FacBits, all of them exact floats.
FacBits == 1
FacDen == 2 ^ FacBits
Factors == 0 .. FacDen

\* Number of pixels of the band a blend call works on (width * height).
BlendPixels == 2

\* Byte channel values the model draws alpha from.
ByteAlphas == {0, 128, 255}

\* The colour channels of the model's input pixels.
BlendColor1 == <<200, 100, 0>>
BlendColor2 == <<100, 10, 255>>

Min(a, b) == IF a < b THEN a ELSE b
Max(a, b) == IF a > b THEN a ELSE b

\* divide_round_i(a, b) for a, b >= 0
divide_round_i(a, b) == (2 * a + b) \div (2 * b)

\* blend_color_add_byte(dst, src1, src2): straight add, weighted by src2[3]
blend_color_add_byte(src1, src2) ==
  IF src2[4] # 0
    THEN [c \in 1 .. 4 |->
            IF c = 4 THEN src1[4]
            ELSE Min(divide_round_i(src1[c] * 255 + src2[c] * src2[4], 255),
                     255)]
    ELSE src1

\* T(achannel * fac) for T = uchar: the product as a float, truncated.
ScaledAlpha(achannel, fac) == (achannel * fac) \div FacDen

Pixel(color, alpha) == <<color[1], color[2], color[3], alpha>>

InitBlend ==
  /\ \E a1 \in [1 .. BlendPixels -> ByteAlphas],
        a2 \in [1 .. BlendPixels -> ByteAlphas], fac \in Factors :
       /\ blend = [pc |-> "scale", fac |-> fac, i |-> 1,
                   src1 |-> [i \in 1 .. BlendPixels |->
                               Pixel(BlendColor1, a1[i])],
                   src2 |-> [i \in 1 .. BlendPixels |->
                               Pixel(BlendColor2, a2[i])],
                   dst |-> [i \in 1 .. BlendPixels |-> <<0, 0, 0, 0>>],
                   achannel |-> 0]
       /\ blend_in = [src1 |-> blend.src1, src2 |-> blend.src2]
  /\ OthersIdleBlend

\* T achannel = src2[3]; src2[3] = T(achannel * fac);
BlendScaleAlpha ==
  /\ blend.pc = "scale"
  /\ blend' = [blend EXCEPT !.pc = "blend",
                 !.achannel = blend.src2[blend.i][4],
                 !.src2[blend.i][4] =
                   ScaledAlpha(blend.src2[blend.i][4], blend.fac)]
  /\ UNCHANGED blend_in

\* blend_function(dst, src1, src2);
BlendFunction ==
  /\ blend.pc = "blend"
  /\ blend' = [blend EXCEPT !.pc = "restore",
                 !.dst[blend.i] =
                   blend_color_add_byte(blend.src1[blend.i],
                                        blend.src2[blend.i])]
  /\ UNCHANGED blend_in

\* A bug to compare with: the saved alpha is not written back.
BlendRestoreAlpha_skipped ==
  /\ blend.pc = "restore"
  /\ blend' = [blend EXCEPT !.pc = "alpha"]
  /\ UNCHANGED blend_in

\* src2[3] = achannel;
BlendRestoreAlpha ==
  /\ blend.pc = "restore"
  /\ blend' = [blend EXCEPT !.pc = "alpha",
                 !.src2[blend.i][4] = blend.achannel]
  /\ UNCHANGED blend_in

\* dst[3] = src1[3]; src1 += 4; src2 += 4; dst += 4;
BlendOutputAlpha ==
  /\ blend.pc = "alpha"
  /\ blend' = [blend EXCEPT
                 !.dst[blend.i][4] = blend.src1[blend.i][4],
                 !.i = blend.i + 1,
                 !.pc = IF blend.i = BlendPixels THEN "done" ELSE "scale"]
  /\ UNCHANGED blend_in

NextBlend ==
  \/ BlendScaleAlpha /\ UNCHANGED othersBlend
  \/ BlendFunction /\ UNCHANGED othersBlend
  \/ BlendRestoreAlpha /\ UNCHANGED othersBlend
  \/ BlendOutputAlpha /\ UNCHANGED othersBlend

SpecBlend == InitBlend /\ [][NextBlend]_vars

\* C4 as stated: at every step of the call and on return, both inputs hold
\* the values they had before the call.
C4_InputsNeverWritten ==
  /\ blend.src1 = blend_in.src1
  /\ blend.src2 = blend_in.src2

\* C4, amended: input 1 is never written; input 2 differs from its value
\* before the call only while one of its pixels is being blended, and then
\* only in that pixel's alpha, which holds T(alpha * fac); on return both
\* inputs hold the values they had before the call.
C4_InputsRestored ==
  /\ blend.src1 = blend_in.src1
  /\ blend.pc \in {"scale", "alpha", "done"} => blend.src2 = blend_in.src2
  /\ blend.pc \in {"blend", "restore"} =>
       /\ blend.achannel = blend_in.src2[blend.i][4]
       /\ blend.src2 =
            [blend_in.src2 EXCEPT
               ![blend.i][4] = ScaledAlpha(blend.achannel, blend.fac)]

\* The call returned after blending with a half factor an input 2 whose
\* alpha the factor changes.
C4_Witness ==
  /\ blend.pc = "done"
  /\ blend.fac = 1
  /\ blend_in.src2[1][4] = 255
  /\ blend.src2 = blend_in.src2
  /\ blend.dst[1] # <<0, 0, 0, 0>>

(***************************************************************************)
(* Numbers: float values are modelled by exact rationals <<n, d>>, d > 0,  *)
(* in lowest terms                                                         *)
(***************************************************************************)

Abs(n) == IF n < 0 THEN -n ELSE n

RECURSIVE Gcd(_, _)
Gcd(a, b) == IF b = 0 THEN a ELSE Gcd(b, a % b)

Rat(n, d) ==
  LET g == Gcd(Abs(n), d) IN IF n = 0 THEN <<0, 1>> ELSE <<n \div g, d \div g>>

RMul(a, b) == Rat(a[1] * b[1], a[2] * b[2])
RAdd(a, b) == Rat(a[1] * b[2] + b[1] * a[2], a[2] * b[2])
RSub(a, b) == Rat(a[1] * b[2] - b[1] * a[2], a[2] * b[2])
RLe(a, b) == a[1] * b[2] <= b[1] * a[2]
RLt(a, b) == a[1] * b[2] < b[1] * a[2]
RInv(a) == IF a[1] < 0 THEN Rat(-a[2], -a[1]) ELSE Rat(a[2], a[1])
RZero == <<0, 1>>
ROne == <<1, 1>>

\* The factor k / FacDen as a float.
FacOf(k) == Rat(k, FacDen)

\* int(c * fac) for an integer constant c: the product, truncated.
IntFac(c, k) == (c * k) \div FacDen

\* unit_float_to_uchar_clamp(val)
unit_float_to_uchar_clamp(val) ==
  IF RLe(val, RZero) THEN 0
  ELSE IF RLt(Rat(509, 510), val) THEN 255
  ELSE LET v == RAdd(RMul(<<255, 1>>, val), <<1, 2>>) IN v[1] \div v[2]

\* straight_uchar_to_premul_float(result, color)
straight_uchar_to_premul_float(color) ==
  LET alpha == Rat(color[4], 255)
      fac == RMul(alpha, Rat(1, 255))
  IN <<RMul(<<color[1], 1>>, fac), RMul(<<color[2], 1>>, fac),
       RMul(<<color[3], 1>>, fac), alpha>>

\* premul_float_to_straight_uchar(result, color)
premul_float_to_straight_uchar(color) ==
  IF color[4] = RZero \/ color[4] = ROne
    THEN [c \in 1 .. 4 |-> unit_float_to_uchar_clamp(color[c])]
    ELSE LET alpha_inv == RInv(color[4])
         IN [c \in 1 .. 4 |->
               IF c = 4 THEN unit_float_to_uchar_clamp(color[4])
               ELSE unit_float_to_uchar_clamp(RMul(color[c], alpha_inv))]

\* static float4 load_premul_pixel(const uchar *ptr)
load_premul_pixel(ptr) == straight_uchar_to_premul_float(ptr)

\* static void store_premul_pixel(const float4 &pix, uchar *dst)
store_premul_pixel(pix) == premul_float_to_straight_uchar(pix)

\* x >> n for any integer x (an arithmetic shift rounds down)
Shr(x, n) == x \div (2 ^ n)

\* The value an int takes when stored in a uchar.
ToUchar(x) == x % 256

(***************************************************************************)
(* Per-pixel bodies of the byte executors. fac is the index k of the       *)
(* factor k / FacDen; a pixel is <<r, g, b, a>>.                           *)
(***************************************************************************)

\* static bool alpha_opaque(uchar alpha)
alpha_opaque(alpha) == alpha = 255

\* The general branch of do_alphaover_effect: fac * col1 + mfac * col2.
alphaover_mix(fac, src1, src2) ==
  LET col1 == load_premul_pixel(src1)
      mfac == RSub(ROne, RMul(FacOf(fac), col1[4]))
      col2 == load_premul_pixel(src2)
  IN store_premul_pixel(
       [c \in 1 .. 4 |->
          RAdd(RMul(FacOf(fac), col1[c]), RMul(mfac, col2[c]))])

\* The loop body of do_alphaover_effect<uchar>, for fac > 0.
alphaover_pixel(fac, src1, src2) ==
  IF src1[4] <= 0 THEN src2
  ELSE IF fac = FacDen /\ alpha_opaque(src1[4]) THEN src1
  ELSE alphaover_mix(fac, src1, src2)

\* The loop body of do_alphaunder_effect<uchar>, for fac > 0.
alphaunder_pixel(fac, src1, src2) ==
  IF src2[4] <= 0 /\ fac >= FacDen THEN src1
  ELSE IF alpha_opaque(src2[4]) THEN src2
  ELSE LET col2 == load_premul_pixel(src2)
           mfac == RMul(FacOf(fac), RSub(ROne, col2[4]))
           col1 == load_premul_pixel(src1)
       IN store_premul_pixel(
            [c \in 1 .. 4 |-> RAdd(RMul(mfac, col1[c]), col2[c])])

\* The loop body of do_cross_effect_byte.
cross_pixel_byte(fac, rt1, rt2) ==
  LET temp_fac == IntFac(256, fac)
      temp_mfac == 256 - temp_fac
  IN [c \in 1 .. 4 |-> Shr(temp_mfac * rt1[c] + temp_fac * rt2[c], 8)]

\* The loop body of do_add_effect_byte.
add_pixel_byte(fac, cp1, cp2) ==
  LET temp_fac2 == IntFac(256, fac) * cp2[4]
  IN [c \in 1 .. 4 |->
        IF c = 4 THEN cp1[4]
        ELSE Min(cp1[c] + Shr(temp_fac2 * cp2[c], 16), 255)]

\* The loop body of do_sub_effect_byte.
sub_pixel_byte(fac, cp1, cp2) ==
  LET temp_fac2 == IntFac(256, fac) * cp2[4]
  IN [c \in 1 .. 4 |->
        IF c = 4 THEN cp1[4]
        ELSE Max(cp1[c] - Shr(temp_fac2 * cp2[c], 16), 0)]

\* The loop body of do_mul_effect_byte.
mul_pixel_byte(fac, rt1, rt2) ==
  [c \in 1 .. 4 |->
     ToUchar(rt1[c] + Shr(IntFac(256, fac) * rt1[c] * (rt2[c] - 255), 16))]

\* The loop body of apply_blend_function<uchar> with the add blend function.
blend_pixel_byte(fac, src1, src2) ==
  LET scaled == [src2 EXCEPT ![4] = ScaledAlpha(src2[4], fac)]
      dst == blend_color_add_byte(src1, scaled)
  IN [dst EXCEPT ![4] = src1[4]]

\* sqrtf_signed(c) for c >= 0, on the perfect squares the model feeds it.
sqrtf_signed(c) ==
  <<CHOOSE r \in 0 .. c[1] : r * r = c[1], CHOOSE r \in 1 .. c[2] : r * r = c[2]>>

\* static float invGammaCorrect(float c)
invGammaCorrect(c) == sqrtf_signed(c)

\* static float gammaCorrect(float c)
gammaCorrect(c) == IF c[1] < 0 THEN RSub(RZero, RMul(c, c)) ELSE RMul(c, c)

\* The loop body of do_gammacross_effect<uchar>.
gammacross_pixel(fac, src1, src2) ==
  LET mfac == RSub(ROne, FacOf(fac))
      col1 == load_premul_pixel(src1)
      col2 == load_premul_pixel(src2)
  IN store_premul_pixel(
       [c \in 1 .. 4 |->
          gammaCorrect(RAdd(RMul(mfac, invGammaCorrect(col1[c])),
                            RMul(FacOf(fac), invGammaCorrect(col2[c]))))])

(***************************************************************************)
(* Row-tiled executors. A buffer is a function from the pixel index        *)
(* 0 .. rectx * recty - 1 to a pixel; a pointer into it is an offset.      *)
(***************************************************************************)

\* context->rectx and context->recty of the model's render.
SliceRectx == 9
SliceRecty == 10

\* The most cuts a partition of the rows into bands has.
MaxCuts == 2

\* The test images the inputs are drawn from.
SliceImages == {0, 1}

\* The rows a partition may be cut before: the second, the middle and the
\* last one.
CutRows == {1, SliceRecty \div 2, SliceRecty - 1}

XOFF == 8
YOFF == 8

\* What a pixel of a buffer allocated with IB_uninitialized_pixels holds
\* until it is written, and what a read outside a buffer yields.
Uninit == <<-1, -1, -1, -1>>

At(buf, i) == IF i \in DOMAIN buf THEN buf[i] ELSE Uninit

SlicePixels == 0 .. SliceRectx * SliceRecty - 1

\* The test images behind ibuf1 and ibuf2: every row differs from the others,
\* and alpha is 0 or 255.
Ibuf1Image(img) ==
  [p \in SlicePixels |->
     LET x == p % SliceRectx
         y == p \div SliceRectx
     IN <<(37 * x + 11 * y + 100 * img) % 256, (29 * y + 3) % 256,
          (x * x + y) % 256,
          IF (x + 2 * y + img) % 3 = 0 THEN 0 ELSE 255>>]

Ibuf2Image(img) ==
  [p \in SlicePixels |->
     LET x == p % SliceRectx
         y == p \div SliceRectx
     IN <<(13 * x + 7 * y + 50) % 256, (91 * y + x + 60 * img) % 256, 200,
          IF (x + y) % 4 = 1 THEN 0 ELSE 255>>]

\* The same image with every channel at 0 or 255, where a square root is
\* exact.
Saturated(image) ==
  [p \in DOMAIN image |->
     [c \in 1 .. 4 |-> IF image[p][c] >= 128 THEN 255 ELSE 0]]

\* The effects registered with execute_slice.
SliceEffects ==
  {"CROSS", "GAMCROSS", "ADD", "SUB", "MUL", "BLEND_MODE", "COLORMIX",
   "ALPHAOVER", "ALPHAUNDER", "OVERDROP", "TRANSFORM"}

SliceIbuf1(effect, img) ==
  IF effect = "GAMCROSS" THEN Saturated(Ibuf1Image(img)) ELSE Ibuf1Image(img)

SliceIbuf2(effect, img) ==
  IF effect = "GAMCROSS" THEN Saturated(Ibuf2Image(img)) ELSE Ibuf2Image(img)

\* A bug to compare with: the offset of a band leaves out the row length.
slice_get_byte_buffers_no_rectx(rectx, start_line) == 4 * start_line

\* static void slice_get_byte_buffers(...): int offset = 4 * start_line *
\* context->rectx, added to the data pointer of each buffer.
slice_get_byte_buffers(rectx, start_line) == 4 * start_line * rectx

\* The pixels a pointer rect = data + offset sees: rect[4 * k .. 4 * k + 3].
Rect(buf, offset) == [k \in SlicePixels |-> At(buf, offset \div 4 + k)]

\* All executors whose loop handles one pixel from the same place of each
\* buffer: what they write to rect_out[0 .. x * y - 1].
pixelwise_effect(effect, fac, x, y, rect1, rect2) ==
  [k \in 0 .. x * y - 1 |->
     CASE effect = "CROSS" -> cross_pixel_byte(fac, rect1[k], rect2[k])
       [] effect = "GAMCROSS" -> gammacross_pixel(fac, rect1[k], rect2[k])
       [] effect = "ADD" -> add_pixel_byte(fac, rect1[k], rect2[k])
       [] effect = "SUB" -> sub_pixel_byte(fac, rect1[k], rect2[k])
       [] effect = "MUL" -> mul_pixel_byte(fac, rect1[k], rect2[k])
       [] effect \in {"BLEND_MODE", "COLORMIX"} ->
            blend_pixel_byte(fac, rect1[k], rect2[k])
       [] effect = "ALPHAUNDER" ->
            IF fac <= 0 THEN rect2[k]
            ELSE alphaunder_pixel(fac, rect1[k], rect2[k])]

\* template<typename T> static void do_alphaover_effect(fac, width, height,
\* src1, src2, dst), T = uchar
do_alphaover_effect(fac, width, height, src1, src2) ==
  [k \in 0 .. width * height - 1 |->
     IF fac <= 0 THEN src2[k] ELSE alphaover_pixel(fac, src1[k], src2[k])]

\* static void do_drop_effect_byte(fac, x, y, rect2i, rect1i, outi)
do_drop_effect_byte(fac, x, y, rect2i, rect1i) ==
  LET xoff == Min(XOFF, x)
      yoff == Min(YOFF, y)
      temp_fac == IntFac(70, fac)
  IN [k \in 0 .. x * y - 1 |->
        LET i == k \div x
            j == k % x
        IN IF i < y - yoff /\ j >= xoff
             THEN LET rt2 == rect2i[yoff * x + i * x + (j - xoff)]
                      temp_fac2 == Shr(temp_fac * rt2[4], 8)
                  IN [c \in 1 .. 4 |-> Max(0, rect1i[k][c] - temp_fac2)]
             ELSE rect1i[k]]

\* A bug to compare with: alpha-over first, the drop shadow written over it.
do_overdrop_effect_drop_last(fac, x, y, rect1, rect2) ==
  LET drop == do_drop_effect_byte(fac, x, y, rect1, rect2)
      over == do_alphaover_effect(fac, x, y, rect1, rect2)
  IN [k \in 0 .. x * y - 1 |-> IF k \in DOMAIN drop THEN drop[k] ELSE over[k]]

\* static void do_overdrop_effect(...): the drop shadow, then alpha-over
\* written over it.
do_overdrop_effect(fac, x, y, rect1, rect2) ==
  LET drop == do_drop_effect_byte(fac, x, y, rect1, rect2)
      over == do_alphaover_effect(fac, x, y, rect1, rect2)
  IN [k \in 0 .. x * y - 1 |-> IF k \in DOMAIN over THEN over[k] ELSE drop[k]]

\* imbuf::interpolate_nearest_border_byte(ibuf, u, v) at integer u, v: the
\* pixel there, transparent black outside the image.
interpolate_nearest_border_byte(ibuf, u, v) ==
  IF u \in 0 .. SliceRectx - 1 /\ v \in 0 .. SliceRecty - 1
    THEN ibuf[v * SliceRectx + u]
    ELSE <<0, 0, 0, 0>>

\* static void transform_image(x, y, start_line, total_lines, ibuf, out, ...)
\* with scale 1, no rotation, nearest interpolation and a translation by
\* whole pixels: the pixels written, from dst[x * start_line] on.
transform_image(x, y, start_line, total_lines, ibuf, xIni, yIni) ==
  [k \in 0 .. x * total_lines - 1 |->
     LET xi == k % x
         yi == start_line + k \div x
     IN interpolate_nearest_border_byte(ibuf, xi - xIni, yi - yIni)]

\* The buffer after `written` was stored from the pointer data + offset on.
Store(out, offset, written) ==
  [p \in DOMAIN out |->
     IF p - offset \div 4 \in DOMAIN written
       THEN written[p - offset \div 4]
       ELSE out[p]]

\* One call of the handle's execute_slice(context, seq, timeline_frame, fac,
\* ibuf1, ibuf2, start_line, total_lines, out): the output buffer after it.
execute_slice(s, start_line, total_lines, out) ==
  LET ibuf1 == SliceIbuf1(s.effect, s.img)
      ibuf2 == SliceIbuf2(s.effect, s.img)
      offset == slice_get_byte_buffers(SliceRectx, start_line)
      rect1 == Rect(ibuf1, offset)
      rect2 == Rect(ibuf2, offset)
      x == SliceRectx
  IN CASE s.effect = "TRANSFORM" ->
            Store(out, 4 * x * start_line,
                  transform_image(x, SliceRecty, start_line, total_lines,
                                  ibuf1, s.xIni, s.yIni))
       [] s.effect = "ALPHAOVER" ->
            Store(out, offset,
                  do_alphaover_effect(s.fac, x, total_lines, rect1, rect2))
       [] s.effect = "OVERDROP" ->
            Store(out, offset,
                  do_overdrop_effect(s.fac, x, total_lines, rect1, rect2))
       [] s.effect = "COLORMIX" ->
            Store(out, offset,
                  pixelwise_effect(s.effect, s.factor, x, total_lines, rect1,
                                   rect2))
       [] OTHER ->
            Store(out, offset,
                  pixelwise_effect(s.effect, s.fac, x, total_lines, rect1,
                                   rect2))

\* The bands of a partition of the rows cut before the rows in `cuts`:
\* <<start_line, total_lines>> each.
Bands(cuts) ==
  LET starts == cuts \cup {0}
      NextStart(a) ==
        IF \E b \in starts : b > a
          THEN CHOOSE b \in starts : b > a /\ \A c \in starts : c > a => b <= c
          ELSE SliceRecty
  IN {<<a, NextStart(a) - a>> : a \in starts}

InitSlice ==
  /\ \E effect \in SliceEffects, fac \in Factors, img \in SliceImages,
        cuts \in SUBSET CutRows :
       /\ Cardinality(cuts) <= MaxCuts
       /\ slice = [effect |-> effect,
                   fac |-> IF effect = "TRANSFORM" THEN FacDen ELSE fac,
                   factor |-> IF effect = "COLORMIX" THEN FacDen - 1
                              ELSE FacDen,
                   xIni |-> IF effect = "TRANSFORM" THEN 1 ELSE 0,
                   yIni |-> IF effect = "TRANSFORM" THEN img ELSE 0,
                   img |-> img, cuts |-> cuts, done |-> {},
                   out |-> [p \in SlicePixels |-> Uninit]]
  /\ OthersIdleSlice

\* One band of the partition is run; the bands run in any order.
ExecuteSlice ==
  \E band \in Bands(slice.cuts) \ slice.done :
    slice' = [slice EXCEPT
                !.done = slice.done \cup {band},
                !.out = execute_slice(slice, band[1], band[2], slice.out)]

NextSlice ==
  \/ ExecuteSlice /\ UNCHANGED othersSlice

SpecSlice == InitSlice /\ [][NextSlice]_vars

\* One call over the whole image.
WholeImage == execute_slice(slice, 0, SliceRecty, [p \in SlicePixels |-> Uninit])

RowOf(p) == p \div SliceRectx

InDoneBand(p) ==
  \E band \in slice.done : RowOf(p) \in band[1] .. band[1] + band[2] - 1

\* C5: whatever bands of whatever partition have run, in whatever order, the
\* rows of those bands hold what one call over the whole image writes there
\* and every other row is still unwritten.
C5_BandsIndependent ==
  slice.effect # "none" =>
    LET whole == WholeImage
    IN \A p \in SlicePixels :
         slice.out[p] = IF InDoneBand(p) THEN whole[p] ELSE Uninit

\* Over-drop ran over three bands, one of them higher than YOFF rows would
\* need to be to hold a shadow, and the image is complete.
C5_Witness ==
  /\ slice.effect = "OVERDROP"
  /\ Cardinality(slice.cuts) = 2
  /\ slice.done = Bands(slice.cuts)
  /\ slice.fac = FacDen
  /\ \A p \in SlicePixels : slice.out[p] # Uninit

\* The alpha-over executor called with the arguments of the strip's call
\* for the band, on an unwritten output buffer.
AlphaOverBand(band) ==
  execute_slice([slice EXCEPT !.effect = "ALPHAOVER"], band[1], band[2],
                [p \in SlicePixels |-> Uninit])

\* What the drop-shadow pass of the over-drop executor writes for the band.
DropPassBand(band) ==
  LET offset == slice_get_byte_buffers(SliceRectx, band[1])
  IN do_drop_effect_byte(slice.fac, SliceRectx, band[2],
                         Rect(SliceIbuf1(slice.effect, slice.img), offset),
                         Rect(SliceIbuf2(slice.effect, slice.img), offset))

\* C30: the rows of every band the over-drop executor has run hold what the
\* alpha-over executor writes there for the same inputs, factor and band.
C30_OverDropIsAlphaOver ==
  slice.effect = "OVERDROP" =>
    \A band \in slice.done :
      LET over == AlphaOverBand(band)
      IN \A p \in SlicePixels :
           RowOf(p) \in band[1] .. band[1] + band[2] - 1 =>
             slice.out[p] = over[p]

\* Over-drop ran over a band high enough to hold a shadow, and the drop
\* pass wrote a pixel of it that alpha-over then replaced by another value.
C30_Witness ==
  /\ slice.effect = "OVERDROP"
  /\ slice.fac = FacDen
  /\ \E band \in slice.done :
       /\ band[2] > YOFF
       /\ \E k \in 0 .. SliceRectx * band[2] - 1 :
            /\ DropPassBand(band)[k] # slice.out[band[1] * SliceRectx + k]
            /\ slice.out[band[1] * SliceRectx + k] # Uninit

(***************************************************************************)
(* Threads at the process-wide font map. A call is followed statement by    *)
(* statement: taking g_font_map.mutex where the function has a lock_guard, *)
(* entering and leaving the map, releasing the mutex on return.            *)
(***************************************************************************)

Threads == {"t1", "t2"}

\* The functions that use g_font_map.
FontMapOps ==
  {"seq_load_font_file", "seq_load_font_mem", "seq_unload_font",
   "SEQ_fontmap_clear", "do_text_effect"}

\* Whether the function opens with std::lock_guard lock(g_font_map.mutex).
HasLockGuard(op) == op # "SEQ_fontmap_clear"

NoThreadCall == [op |-> "none", pc |-> "idle", nested |-> FALSE]

InitRace ==
  /\ thr = [t \in Threads |-> NoThreadCall]
  /\ mutex = [owner |-> "none", count |-> 0]
  /\ OthersIdleRace

\* A thread calls one of the functions.
RaceCall(t) ==
  /\ thr[t].pc = "idle"
  /\ \E op \in FontMapOps :
       thr' = [thr EXCEPT
                 ![t] = [op |-> op,
                         pc |-> IF HasLockGuard(op) THEN "lock" ELSE "enter",
                         nested |-> FALSE]]
  /\ UNCHANGED mutex

\* std::lock_guard lock(g_font_map.mutex): the mutex is recursive, so its
\* owner may take it again.
RaceLock(t) ==
  /\ thr[t].pc = "lock"
  /\ mutex.owner \in {"none", t}
  /\ mutex' = [owner |-> t, count |-> mutex.count + 1]
  /\ thr' = [thr EXCEPT
               ![t].pc = IF thr[t].op = "do_text_effect" /\ ~thr[t].nested
                           THEN "font_init" ELSE "enter"]

\* text_effect_font_init, called by do_text_effect with the mutex held:
\* when the font needs a load it calls SEQ_effect_text_font_load, which
\* calls seq_load_font_file or seq_load_font_mem.
RaceFontInit(t) ==
  /\ thr[t].pc = "font_init"
  /\ \E needs_load \in BOOLEAN :
       thr' = [thr EXCEPT
                 ![t] = IF needs_load
                          THEN [op |-> "do_text_effect", pc |-> "lock",
                                nested |-> TRUE]
                          ELSE [op |-> "do_text_effect", pc |-> "draw",
                                nested |-> FALSE]]
  /\ UNCHANGED mutex

\* The first statement that reads or modifies one of the two maps.
RaceEnter(t) ==
  /\ thr[t].pc = "enter"
  /\ thr' = [thr EXCEPT ![t].pc = "in_map"]
  /\ UNCHANGED mutex

\* The last statement that reads or modifies one of the two maps.
RaceLeave(t) ==
  /\ thr[t].pc = "in_map"
  /\ thr' = [thr EXCEPT
               ![t] = IF HasLockGuard(thr[t].op)
                        THEN [thr[t] EXCEPT !.pc = "unlock"]
                        ELSE NoThreadCall]
  /\ UNCHANGED mutex

\* The rest of do_text_effect: layout and drawing with the font.
RaceDraw(t) ==
  /\ thr[t].pc = "draw"
  /\ thr' = [thr EXCEPT ![t].pc = "unlock"]
  /\ UNCHANGED mutex

\* The lock_guard goes out of scope on return.
RaceUnlock(t) ==
  /\ thr[t].pc = "unlock"
  /\ mutex' = [owner |-> IF mutex.count = 1 THEN "none" ELSE t,
               count |-> mutex.count - 1]
  /\ thr' = [thr EXCEPT
               ![t] = IF thr[t].nested
                        THEN [op |-> "do_text_effect", pc |-> "draw",
                              nested |-> FALSE]
                        ELSE NoThreadCall]

NextRace ==
  \/ \E t \in Threads : RaceCall(t) /\ UNCHANGED othersRace
  \/ \E t \in Threads : RaceLock(t) /\ UNCHANGED othersRace
  \/ \E t \in Threads : RaceFontInit(t) /\ UNCHANGED othersRace
  \/ \E t \in Threads : RaceEnter(t) /\ UNCHANGED othersRace
  \/ \E t \in Threads : RaceLeave(t) /\ UNCHANGED othersRace
  \/ \E t \in Threads : RaceDraw(t) /\ UNCHANGED othersRace
  \/ \E t \in Threads : RaceUnlock(t) /\ UNCHANGED othersRace

SpecRace == InitRace /\ [][NextRace]_vars

InMap(t) == t \in DOMAIN thr /\ thr[t].pc = "in_map"

\* C6: a thread that reads or modifies the font map holds the font mutex,
\* and no two threads are in the map at the same time.
C6_MapAccessUnderMutex ==
  /\ \A t \in Threads : InMap(t) => mutex.owner = t
  /\ \A t, u \in Threads : InMap(t) /\ InMap(u) => t = u

\* What does hold: every function but SEQ_fontmap_clear is in the map only
\* with the mutex held, so no two of those are in the map together.
LockGuardedAccess ==
  \A t \in Threads :
    InMap(t) /\ thr[t].op # "SEQ_fontmap_clear" => mutex.owner = t

(***************************************************************************)
(* Parameter blocks of text and speed strips, and the font cache           *)
(***************************************************************************)

Strips == {"s1", "s2"}

\* Addresses of parameter blocks, and of frame maps and text runtimes.
MaxBlocks == 2
MaxAllocs == 2
BlockAddrs == 1 .. MaxBlocks
AllocAddrs == 1 .. MaxAllocs

\* Font ids of the font service, and the most references the model lets a
\* font collect.
MaxFonts == 1
MaxRefs == 2
FontIds == 0 .. MaxFonts - 1

SEQ_FONT_NOT_LOADED == -2

\* What a pointer read from a file holds before load() resets it.
StalePointer == -1

\* The VFont datablocks a text strip may use: a font file, a packed font
\* and a font whose file is missing.
VFonts == {"file", "packed", "missing"}

\* vfont->packedfile != nullptr
IsPacked(vfont) == vfont = "packed"

\* Whether the font service can read the font; it still fails to load it
\* when it has no free slot.
Loadable(vfont) == vfont # "missing"

\* Values of the parameters of a block read from a file.
ParamValues == {1}

NoBlock == [kind |-> "free"]

NoStrip == [type |-> "NONE", effectdata |-> 0, not_loaded |-> FALSE]

\* The smallest free address, as an allocator that reuses memory gives.
MinOf(S) == CHOOSE x \in S : \A y \in S : x <= y

\* -- the font service
BLF_is_loaded_id(b, fontid) == fontid \in FontIds /\ b[fontid] > 0

\* BLF_load_unique / BLF_load_mem_unique: a font of its own in the first
\* free slot, or -1.
BLF_load_unique(b, loadable) ==
  LET free == {i \in FontIds : b[i] = 0}
  IN IF loadable /\ free # {}
       THEN [fontid |-> MinOf(free), blf |-> [b EXCEPT ![MinOf(free)] = 1]]
       ELSE [fontid |-> -1, blf |-> b]

BLF_addref_id(b, fontid) == [b EXCEPT ![fontid] = @ + 1]

\* BLF_unload_id: drops one reference; true when that was the last one.
BLF_unload_id(b, fontid) ==
  IF BLF_is_loaded_id(b, fontid)
    THEN [unloaded |-> b[fontid] = 1, blf |-> [b EXCEPT ![fontid] = @ - 1]]
    ELSE [unloaded |-> FALSE, blf |-> b]

\* The element of a one-element set: names a value that is computed once.
The(S) == CHOOSE x \in S : TRUE

\* -- the font map
\* Map::add_or_modify of seq_load_font_file and seq_load_font_mem on one of
\* the two maps: the font id returned, the map and the font service after.
seq_load_font(map, key, loadable, b) ==
  The({IF key \notin DOMAIN map
         THEN [fontid |-> r.fontid,
               map |-> [k \in DOMAIN map \cup {key} |->
                          IF k = key THEN r.fontid ELSE map[k]],
               blf |-> r.blf]
         ELSE IF map[key] >= 0
           THEN IF BLF_is_loaded_id(b, map[key])
                  THEN [fontid |-> map[key], map |-> map,
                        blf |-> BLF_addref_id(b, map[key])]
                  ELSE [fontid |-> r.fontid,
                        map |-> [map EXCEPT ![key] = r.fontid],
                        blf |-> r.blf]
           ELSE [fontid |-> map[key], map |-> map, blf |-> b] :
       r \in {BLF_load_unique(b, loadable)}})

\* static int seq_load_font_file(const std::string &path)
seq_load_font_file(fm, b, path, loadable) ==
  The({[fontid |-> r.fontid, fm |-> [fm EXCEPT !.file = r.map],
        blf |-> r.blf] :
       r \in {seq_load_font(fm.file, path, loadable, b)}})

\* static int seq_load_font_mem(const std::string &name, ...)
seq_load_font_mem(fm, b, name, loadable) ==
  The({[fontid |-> r.fontid, fm |-> [fm EXCEPT !.mem = r.map],
        blf |-> r.blf] :
       r \in {seq_load_font(fm.mem, name, loadable, b)}})

\* Map::remove_if([&](auto item) { return item.value == fontid; })
RemoveValue(map, fontid) ==
  [k \in {j \in DOMAIN map : map[j] # fontid} |-> map[k]]

\* static void seq_unload_font(int fontid)
seq_unload_font(fm, b, fontid) ==
  The({[fm |-> IF r.unloaded
                 THEN [file |-> RemoveValue(fm.file, fontid),
                       mem |-> RemoveValue(fm.mem, fontid)]
                 ELSE fm,
        blf |-> r.blf] :
       r \in {BLF_unload_id(b, fontid)}})

\* -- text parameter blocks
\* void SEQ_effect_text_font_unload(TextVars *data, const bool do_id_user)
SEQ_effect_text_font_unload(data, do_id_user, fm, b) ==
  The({IF data.text_blf_id >= 0
         THEN The({[data |-> [unlinked EXCEPT !.text_blf_id = -1],
                    fm |-> r.fm, blf |-> r.blf] :
                   r \in {seq_unload_font(fm, b, data.text_blf_id)}})
         ELSE [data |-> unlinked, fm |-> fm, blf |-> b] :
       unlinked \in {IF do_id_user /\ data.text_font # "null"
                       THEN [data EXCEPT !.text_font = "null"]
                       ELSE data}})

\* void SEQ_effect_text_font_load(TextVars *data, const bool do_id_user)
SEQ_effect_text_font_load(data, fm, b) ==
  IF data.text_font = "null"
    THEN [data |-> data, fm |-> fm, blf |-> b]
    ELSE The({[data |-> [data EXCEPT !.text_blf_id = r.fontid],
               fm |-> r.fm, blf |-> r.blf] :
              r \in {IF IsPacked(data.text_font)
                       THEN seq_load_font_mem(fm, b, data.text_font,
                                              Loadable(data.text_font))
                       ELSE seq_load_font_file(fm, b, data.text_font,
                                               Loadable(data.text_font))}})

\* The state the operations below work on, as one record.
FontState ==
  [strips |-> strips, blocks |-> blocks, allocs |-> allocs, blf |-> blf,
   font_map |-> font_map]

DataOf(st, s) == st.blocks[st.strips[s].effectdata]

\* static void load_text_effect(Sequence *seq)
load_text_effect(st, s) ==
  The({[st EXCEPT !.blocks[st.strips[s].effectdata] = r.data,
                  !.font_map = r.fm, !.blf = r.blf] :
       r \in {SEQ_effect_text_font_load(DataOf(st, s), st.font_map, st.blf)}})

\* static void load_speed_effect(Sequence *seq)
load_speed_effect(st, s) ==
  [st EXCEPT !.blocks[st.strips[s].effectdata].frameMap = 0]

\* SeqEffectHandle SEQ_effect_handle_get(Sequence *seq), on a text or speed
\* strip: the load callback runs if SEQ_EFFECT_NOT_LOADED is set, and the
\* flag is cleared.
effect_handle_get(st, s) ==
  IF st.strips[s].not_loaded
    THEN The({[loaded EXCEPT !.strips[s].not_loaded = FALSE] :
              loaded \in {IF st.strips[s].type = "TEXT"
                            THEN load_text_effect(st, s)
                            ELSE load_speed_effect(st, s)}})
    ELSE st

\* static void init_text_effect(Sequence *seq), on a strip without a block:
\* the new block.
init_text_effect ==
  [kind |-> "TEXT", param |-> 0, text_font |-> "null", text_blf_id |-> -1,
   runtime |-> 0, frameMap |-> 0]

\* static void init_speed_effect(Sequence *seq), on a strip without a block:
\* the new block, calloc'ed.
init_speed_effect ==
  [kind |-> "SPEED", param |-> 0, text_font |-> "null", text_blf_id |-> -1,
   runtime |-> 0, frameMap |-> 0]

\* static int text_effect_font_init(...): the part that sets text_blf_id.
text_effect_font_init(st, s) ==
  The({IF marked.text_blf_id = SEQ_FONT_NOT_LOADED
         THEN The({[st EXCEPT !.blocks[st.strips[s].effectdata] = r.data,
                              !.font_map = r.fm, !.blf = r.blf] :
                   r \in {SEQ_effect_text_font_load(
                            [marked EXCEPT !.text_blf_id = -1], st.font_map,
                            st.blf)}})
         ELSE [st EXCEPT !.blocks[st.strips[s].effectdata] = marked] :
       marked \in {IF DataOf(st, s).text_blf_id >= 0
                      /\ ~BLF_is_loaded_id(st.blf, DataOf(st, s).text_blf_id)
                     THEN [DataOf(st, s) EXCEPT
                             !.text_blf_id = SEQ_FONT_NOT_LOADED]
                     ELSE DataOf(st, s)}})

\* The font of the font service that is always there: its id is none of
\* those the strips load.
blf_mono_font_render == MaxFonts

\* A bug to compare with: the id of the block used whatever it is.
text_effect_font_no_fallback(data) == data.text_blf_id

\* static int text_effect_font_init(...): the font returned, from the block
\* as the function leaves it.
text_effect_font(data) ==
  IF data.text_blf_id >= 0 THEN data.text_blf_id ELSE blf_mono_font_render

\* The allocations after `old` is freed, if it is one, and a new one made.
Realloc(live, old) ==
  The({[allocs |-> kept \cup {MinOf(AllocAddrs \ kept)},
        fresh |-> MinOf(AllocAddrs \ kept)] :
       kept \in {live \ {old}}})

\* static void calc_text_runtime(...): MEM_delete of the old runtime, MEM_new
\* of the next one.
calc_text_runtime(st, s) ==
  The({[st EXCEPT !.allocs = m.allocs,
                  !.blocks[st.strips[s].effectdata].runtime = m.fresh] :
       m \in {Realloc(st.allocs, DataOf(st, s).runtime)}})

\* A bug to compare with: the copy keeps the frame map of the source.
copy_speed_effect_keeps_map(src_data) == src_data

\* static void copy_speed_effect(Sequence *dst, const Sequence *src, int):
\* the block of the copy.
copy_speed_effect(src_data) == [src_data EXCEPT !.frameMap = 0]

\* static void copy_text_effect(Sequence *dst, const Sequence *src, int):
\* the block of the copy, the font map and the font service after.
copy_text_effect(src_data, fm, b) ==
  SEQ_effect_text_font_load(
    [src_data EXCEPT !.runtime = 0, !.text_blf_id = -1], fm, b)

\* void seq_effect_speed_rebuild_map(Scene *scene, Sequence *seq), with an
\* input strip and a positive length: MEM_freeN of the old map, MEM_mallocN
\* of the next one.
seq_effect_speed_rebuild_map(st, s, has_fcurve) ==
  IF ~has_fcurve THEN st
  ELSE The({[st EXCEPT !.allocs = m.allocs,
                       !.blocks[st.strips[s].effectdata].frameMap = m.fresh] :
            m \in {Realloc(st.allocs, DataOf(st, s).frameMap)}})

\* static void seq_effect_speed_frame_map_ensure(Scene *scene, Sequence *seq)
seq_effect_speed_frame_map_ensure(st, s, has_fcurve) ==
  IF DataOf(st, s).frameMap # 0 THEN st
  ELSE seq_effect_speed_rebuild_map(st, s, has_fcurve)

\* static void free_text_effect(Sequence *seq, const bool do_id_user)
free_text_effect(st, s, do_id_user) ==
  The({[st EXCEPT !.allocs = st.allocs \ {DataOf(st, s).runtime},
                  !.blocks[st.strips[s].effectdata] = NoBlock,
                  !.strips[s].effectdata = 0,
                  !.font_map = r.fm, !.blf = r.blf] :
       r \in {SEQ_effect_text_font_unload(DataOf(st, s), do_id_user,
                                          st.font_map, st.blf)}})

\* static void free_speed_effect(Sequence *seq, const bool do_id_user)
free_speed_effect(st, s) ==
  [st EXCEPT !.allocs = st.allocs \ {DataOf(st, s).frameMap},
             !.blocks[st.strips[s].effectdata] = NoBlock,
             !.strips[s].effectdata = 0]

\* The variables take the values of the record, and the caps hold.
FontBecomes(st) ==
  /\ \A f \in FontIds : st.blf[f] <= MaxRefs
  /\ strips' = st.strips
  /\ blocks' = st.blocks
  /\ allocs' = st.allocs
  /\ blf' = st.blf
  /\ font_map' = st.font_map

FreeBlockAddrs == {a \in BlockAddrs : blocks[a] = NoBlock}

Exists(s) == strips[s].type # "NONE"

InitFont ==
  /\ strips = [s \in Strips |-> NoStrip]
  /\ blocks = [a \in BlockAddrs |-> NoBlock]
  /\ allocs = {}
  /\ blf = [f \in FontIds |-> 0]
  /\ font_map = [file |-> <<>>, mem |-> <<>>]
  /\ font_last = [op |-> "none"]
  /\ OthersIdleFont

\* A strip comes out of a file: the flag SEQ_EFFECT_NOT_LOADED is set, the
\* font id of a text block is SEQ_FONT_NOT_LOADED and its runtime null, and
\* the frame map pointer of a speed block is whatever the file held.
FontReadStrip(s) ==
  /\ ~Exists(s)
  /\ FreeBlockAddrs # {}
  /\ \E type \in {"TEXT", "SPEED"}, vfont \in VFonts \cup {"null"},
        param \in ParamValues, a \in {MinOf(FreeBlockAddrs)} :
       /\ type = "SPEED" => vfont = "null"
       /\ strips' = [strips EXCEPT
                       ![s] = [type |-> type, effectdata |-> a,
                               not_loaded |-> TRUE]]
       /\ blocks' = [blocks EXCEPT
                       ![a] = IF type = "TEXT"
                                THEN [kind |-> "TEXT", param |-> param,
                                      text_font |-> vfont,
                                      text_blf_id |-> SEQ_FONT_NOT_LOADED,
                                      runtime |-> 0, frameMap |-> 0]
                                ELSE [kind |-> "SPEED", param |-> param,
                                      text_font |-> "null",
                                      text_blf_id |-> -1, runtime |-> 0,
                                      frameMap |-> StalePointer]]
  /\ font_last' = [op |-> "other"]
  /\ UNCHANGED <<allocs, blf, font_map>>

\* A strip is added: the handle's init callback makes its block.
FontAddStrip(s) ==
  /\ ~Exists(s)
  /\ FreeBlockAddrs # {}
  /\ \E type \in {"TEXT", "SPEED"}, a \in {MinOf(FreeBlockAddrs)} :
       /\ strips' = [strips EXCEPT
                       ![s] = [type |-> type, effectdata |-> a,
                               not_loaded |-> FALSE]]
       /\ blocks' = [blocks EXCEPT
                       ![a] = IF type = "TEXT" THEN init_text_effect
                              ELSE init_speed_effect]
  /\ font_last' = [op |-> "other"]
  /\ UNCHANGED <<allocs, blf, font_map>>

\* A call of SEQ_effect_text_font_unload on the block of a text strip.
FontUnload(s) ==
  /\ strips[s].type = "TEXT"
  /\ \E do_id_user \in BOOLEAN, st \in {FontState} :
       \E r \in {SEQ_effect_text_font_unload(DataOf(st, s), do_id_user,
                                             st.font_map, st.blf)} :
         FontBecomes([st EXCEPT !.blocks[st.strips[s].effectdata] = r.data,
                                !.font_map = r.fm, !.blf = r.blf])
  /\ font_last' = [op |-> "other"]

\* A call of SEQ_effect_text_font_load on the block of a text strip.
FontLoad(s) ==
  /\ strips[s].type = "TEXT"
  /\ \E st \in {FontState} :
       \E r \in {SEQ_effect_text_font_load(DataOf(st, s), st.font_map,
                                           st.blf)} :
         FontBecomes([st EXCEPT !.blocks[st.strips[s].effectdata] = r.data,
                                !.font_map = r.fm, !.blf = r.blf])
  /\ font_last' = [op |-> "other"]

\* The strip is rendered: SEQ_effect_handle_get, then do_text_effect as far
\* as it touches the block, or the frame lookup of the speed effect.
FontRender(s) ==
  /\ Exists(s)
  /\ \E st \in {FontState} :
       \E got \in {effect_handle_get(st, s)} :
         IF strips[s].type = "TEXT"
           THEN /\ Cardinality(allocs \ {DataOf(got, s).runtime}) < MaxAllocs
                /\ \E inited \in {text_effect_font_init(got, s)} :
                     /\ FontBecomes(calc_text_runtime(inited, s))
                     /\ font_last' =
                          [op |-> "render", strip |-> s,
                           font |-> text_effect_font(DataOf(inited, s))]
           ELSE \E has_fcurve \in BOOLEAN :
                  /\ Cardinality(allocs) < MaxAllocs
                  /\ FontBecomes(
                       seq_effect_speed_frame_map_ensure(got, s, has_fcurve))
                  /\ font_last' = [op |-> "other"]

\* The speed curve changed: seq_effect_speed_rebuild_map on a loaded strip.
FontRebuildMap(s) ==
  /\ strips[s].type = "SPEED"
  /\ ~strips[s].not_loaded
  /\ \E st \in {FontState} :
       /\ Cardinality(allocs \ {DataOf(st, s).frameMap}) < MaxAllocs
       /\ FontBecomes(seq_effect_speed_rebuild_map(st, s, TRUE))
  /\ font_last' = [op |-> "other"]

\* The strip src is duplicated as dst: the caller duplicates the strip and
\* calls the copy callback of SEQ_effect_handle_get(src). The copy's flag is
\* that of the source, taken before or after that call.
FontCopy(src, dst) ==
  /\ Exists(src)
  /\ ~Exists(dst)
  /\ FreeBlockAddrs # {}
  /\ \E dst_flag \in {strips[src].not_loaded, FALSE}, st \in {FontState},
        a \in {MinOf(FreeBlockAddrs)} :
       \E got \in {effect_handle_get(st, src)} :
         \E src_data \in {DataOf(got, src)} :
           \E r \in {IF src_data.kind = "TEXT"
                       THEN copy_text_effect(src_data, got.font_map, got.blf)
                       ELSE [data |-> copy_speed_effect(src_data),
                             fm |-> got.font_map, blf |-> got.blf]} :
             /\ FontBecomes([got EXCEPT
                               !.strips[dst] = [type |-> src_data.kind,
                                                effectdata |-> a,
                                                not_loaded |-> dst_flag],
                               !.blocks[a] = r.data,
                               !.font_map = r.fm, !.blf = r.blf])
             /\ font_last' = [op |-> "copy", src |-> src, dst |-> dst,
                              src_block |-> src_data]

\* The strip is freed: the free callback of SEQ_effect_handle_get(seq).
FontFree(s) ==
  /\ Exists(s)
  /\ \E do_id_user \in BOOLEAN, st \in {FontState} :
       \E got \in {effect_handle_get(st, s)} :
         \E freed \in {IF strips[s].type = "TEXT"
                         THEN free_text_effect(got, s, do_id_user)
                         ELSE free_speed_effect(got, s)} :
           FontBecomes([freed EXCEPT !.strips[s] = NoStrip])
  /\ font_last' =
       IF font_last.op = "copy" /\ s \in {font_last.src, font_last.dst}
         THEN [op |-> "free_after_copy",
               other |-> IF s = font_last.src THEN font_last.dst
                         ELSE font_last.src]
         ELSE [op |-> "other"]

NextFont ==
  \/ \E s \in Strips : FontReadStrip(s) /\ UNCHANGED othersFont
  \/ \E s \in Strips : FontAddStrip(s) /\ UNCHANGED othersFont
  \/ \E s \in Strips : FontUnload(s) /\ UNCHANGED othersFont
  \/ \E s \in Strips : FontLoad(s) /\ UNCHANGED othersFont
  \/ \E s \in Strips : FontRender(s) /\ UNCHANGED othersFont
  \/ \E s \in Strips : FontRebuildMap(s) /\ UNCHANGED othersFont
  \/ \E src, dst \in Strips : FontCopy(src, dst) /\ UNCHANGED othersFont
  \/ \E s \in Strips : FontFree(s) /\ UNCHANGED othersFont

SpecFont == InitFont /\ [][NextFont]_vars

\* The addresses of the live text blocks that hold font id f.
Holders(f) ==
  {a \in DOMAIN blocks : blocks[a] # NoBlock /\ blocks[a].kind = "TEXT"
                         /\ blocks[a].text_blf_id = f}

\* The frame map and runtime addresses a block points to.
Secondary(data) == {data.frameMap, data.runtime} \ {0}

\* C7: the number of references held on a font equals the number of text
\* parameter blocks that hold its id, every cache entry with a font id
\* names a loaded font, and no font is loaded without a cache entry.
C7_RefsEqualHolders ==
  /\ \A f \in DOMAIN blf : blf[f] = Cardinality(Holders(f))
  /\ \A k \in DOMAIN font_map.file :
       font_map.file[k] >= 0 => blf[font_map.file[k]] > 0
  /\ \A k \in DOMAIN font_map.mem :
       font_map.mem[k] >= 0 => blf[font_map.mem[k]] > 0

\* What does hold of the cache: an entry with a font id names a loaded
\* font, a loaded font has exactly one entry, and a font has at least as
\* many references as there are blocks holding its id.
FontCacheSound ==
  /\ \A k \in DOMAIN font_map.file :
       font_map.file[k] >= 0 => blf[font_map.file[k]] > 0
  /\ \A k \in DOMAIN font_map.mem :
       font_map.mem[k] >= 0 => blf[font_map.mem[k]] > 0
  /\ \A f \in DOMAIN blf :
       blf[f] > 0 =>
         Cardinality({k \in DOMAIN font_map.file : font_map.file[k] = f})
           + Cardinality({k \in DOMAIN font_map.mem : font_map.mem[k] = f})
           = 1
  /\ \A f \in DOMAIN blf : blf[f] >= Cardinality(Holders(f))

\* Every strip has a live block of its own type; a loaded strip's frame map
\* and runtime are live allocations; a font id held is a loaded font.
BlocksValid ==
  \A s \in DOMAIN strips :
    Exists(s) =>
      /\ strips[s].effectdata \in BlockAddrs
      /\ blocks[strips[s].effectdata] # NoBlock
      /\ blocks[strips[s].effectdata].kind = strips[s].type
      /\ ~strips[s].not_loaded =>
           Secondary(blocks[strips[s].effectdata]) \subseteq allocs
      /\ blocks[strips[s].effectdata].text_blf_id >= 0 =>
           BLF_is_loaded_id(blf, blocks[strips[s].effectdata].text_blf_id)

\* No two strips share a block, a frame map or a runtime, and every holder
\* of a font id has a reference of its own.
NothingShared ==
  /\ \A s, t \in DOMAIN strips :
       Exists(s) /\ Exists(t) /\ s # t =>
         /\ strips[s].effectdata # strips[t].effectdata
         /\ ~strips[s].not_loaded /\ ~strips[t].not_loaded =>
              Secondary(blocks[strips[s].effectdata])
                \cap Secondary(blocks[strips[t].effectdata]) = {}
  /\ \A f \in DOMAIN blf : blf[f] >= Cardinality(Holders(f))

\* C19: after the render of a text strip whose font id stayed negative (no
\* font, or a font that did not load, a load cached as failed included) the
\* font used is the built-in mono font and the render got as far as the
\* text runtime; and the block never keeps an id of a font that is not
\* loaded: it holds -1, or the id of a loaded font, which is the one used.
C19_FallbackToMonoFont ==
  font_last.op = "render" =>
    LET data == blocks[strips[font_last.strip].effectdata]
    IN /\ data.runtime \in allocs
       /\ data.text_blf_id < 0 =>
            /\ data.text_blf_id = -1
            /\ font_last.font = blf_mono_font_render
       /\ data.text_blf_id >= 0 =>
            /\ BLF_is_loaded_id(blf, data.text_blf_id)
            /\ font_last.font = data.text_blf_id

\* A text strip with a font is rendered, the load of the font has failed
\* and is cached as failed, and the mono font is used.
C19_Witness ==
  /\ font_last.op = "render"
  /\ blocks[strips[font_last.strip].effectdata].text_font # "null"
  /\ blocks[strips[font_last.strip].effectdata].text_blf_id = -1
  /\ font_last.font = blf_mono_font_render
  /\ \E k \in DOMAIN font_map.file \cup DOMAIN font_map.mem :
       /\ k = blocks[strips[font_last.strip].effectdata].text_font
       /\ (IF IsPacked(k) THEN font_map.mem[k] ELSE font_map.file[k]) = -1

\* C8: right after a copy the copy's block is another block with the same
\* parameters, an empty frame map, no runtime and, where the font loads, a
\* font reference of its own, and the source block is as it was; and in
\* every state, so also after either strip is freed, every strip's block,
\* frame map, runtime and font reference are live and shared with no other
\* strip.
C8_CopyIndependent ==
  /\ BlocksValid
  /\ NothingShared
  /\ font_last.op = "copy" =>
       LET src_data == blocks[strips[font_last.src].effectdata]
           dst_data == blocks[strips[font_last.dst].effectdata]
       IN /\ src_data = font_last.src_block
          /\ dst_data.kind = src_data.kind
          /\ dst_data.param = src_data.param
          /\ dst_data.text_font = src_data.text_font
          /\ dst_data.frameMap = 0
          /\ dst_data.runtime = 0
          /\ dst_data.text_blf_id >= 0 =>
               /\ BLF_is_loaded_id(blf, dst_data.text_blf_id)
               /\ dst_data.text_blf_id = src_data.text_blf_id =>
                    blf[dst_data.text_blf_id] >= 2

\* A text strip that held a font and had a runtime was copied, one of the
\* two was freed, and the other still holds the font.
C8_Witness ==
  /\ font_last.op = "free_after_copy"
  /\ Exists(font_last.other)
  /\ strips[font_last.other].type = "TEXT"
  /\ blocks[strips[font_last.other].effectdata].text_blf_id >= 0
  /\ blf[blocks[strips[font_last.other].effectdata].text_blf_id] = 1

(***************************************************************************)
(* Float pixels. A float is not-a-number, an infinity or a finite value    *)
(* with a sign, so that -0 and +0 differ; the finite values the model uses *)
(* are small multiples of a power of two, on which float arithmetic is     *)
(* exact.                                                                  *)
(***************************************************************************)

FNaN == [k |-> "nan", s |-> 0, v |-> RZero]
FInf(sign) == [k |-> "inf", s |-> sign, v |-> RZero]
FFin(sign, magnitude) == [k |-> "fin", s |-> sign, v |-> magnitude]
FZero == FFin(0, RZero)
FOne == FFin(0, ROne)

\* The float of a rational, and the rational of a finite float.
FOfRat(r) == IF r[1] < 0 THEN FFin(1, <<-r[1], r[2]>>) ELSE FFin(0, r)
RatOfF(x) == IF x.s = 1 THEN <<-x.v[1], x.v[2]>> ELSE x.v

FIsZero(x) == x.k = "fin" /\ x.v = RZero

\* float operator*: 0 * inf is not a number, the sign is the product's.
FMul(a, b) ==
  IF a.k = "nan" \/ b.k = "nan" THEN FNaN
  ELSE IF a.k = "inf" \/ b.k = "inf"
    THEN IF FIsZero(a) \/ FIsZero(b) THEN FNaN ELSE FInf((a.s + b.s) % 2)
  ELSE FFin((a.s + b.s) % 2, RMul(a.v, b.v))

\* float operator+: inf - inf is not a number; a zero sum is -0 only when
\* both terms are -0.
FAdd(a, b) ==
  IF a.k = "nan" \/ b.k = "nan" THEN FNaN
  ELSE IF a.k = "inf" /\ b.k = "inf"
    THEN IF a.s = b.s THEN a ELSE FNaN
  ELSE IF a.k = "inf" THEN a
  ELSE IF b.k = "inf" THEN b
  ELSE LET r == RAdd(RatOfF(a), RatOfF(b))
       IN IF r = RZero
            THEN FFin(IF FIsZero(a) /\ FIsZero(b) /\ a.s = 1 /\ b.s = 1
                        THEN 1 ELSE 0, RZero)
            ELSE FOfRat(r)

FNeg(a) == IF a.k = "nan" THEN a ELSE [a EXCEPT !.s = 1 - a.s]

FSub(a, b) == FAdd(a, FNeg(b))

\* x <= 0.0f
FLeZero(x) == x.k # "nan" /\ (x.s = 1 \/ FIsZero(x))

\* static bool alpha_opaque(float alpha)
alpha_opaque_float(alpha) ==
  alpha.k # "nan" /\ alpha.s = 0 /\ (alpha.k = "inf" \/ RLe(ROne, alpha.v))

\* The loop body of do_cross_effect_float.
cross_pixel_float(fac, rt1, rt2) ==
  LET mfac == FSub(FOne, FOfRat(FacOf(fac)))
  IN [c \in 1 .. 4 |->
        FAdd(FMul(mfac, rt1[c]), FMul(FOfRat(FacOf(fac)), rt2[c]))]

\* The general branch of do_alphaover_effect<float>.
alphaover_mix_float(fac, src1, src2) ==
  LET mfac == FSub(FOne, FMul(FOfRat(FacOf(fac)), src1[4]))
  IN [c \in 1 .. 4 |->
        FAdd(FMul(FOfRat(FacOf(fac)), src1[c]), FMul(mfac, src2[c]))]

\* A bug to compare with: without the branch that copies an opaque top.
alphaover_pixel_float_no_copy(fac, src1, src2) ==
  IF FLeZero(src1[4]) THEN src2 ELSE alphaover_mix_float(fac, src1, src2)

\* The loop body of do_alphaover_effect<float>, for fac > 0.
alphaover_pixel_float(fac, src1, src2) ==
  IF FLeZero(src1[4]) THEN src2
  ELSE IF fac = FacDen /\ alpha_opaque_float(src1[4]) THEN src1
  ELSE alphaover_mix_float(fac, src1, src2)

\* static void do_cross_effect(...), on one pixel: the float executor when
\* the output has a float buffer.
do_cross_effect(is_float, fac, ibuf1, ibuf2) ==
  IF is_float THEN cross_pixel_float(fac, ibuf1, ibuf2)
  ELSE cross_pixel_byte(fac, ibuf1, ibuf2)

\* static void do_alphaover_effect(const SeqRenderData *context, ...), on one
\* pixel.
do_alphaover_pixel(is_float, fac, ibuf1, ibuf2) ==
  IF fac <= 0 THEN ibuf2
  ELSE IF is_float THEN alphaover_pixel_float(fac, ibuf1, ibuf2)
  ELSE alphaover_pixel(fac, ibuf1, ibuf2)

\* The early_out callbacks of the handles, by name.
early_out(name, fac) ==
  CASE name = "early_out_fade" ->
         IF fac = 0 THEN "UseInput1"
         ELSE IF fac = FacDen THEN "UseInput2" ELSE "DoEffect"
    [] name = "early_out_mul_input2" ->
         IF fac = 0 THEN "UseInput1" ELSE "DoEffect"
    [] name = "early_out_mul_input1" ->
         IF fac = 0 THEN "UseInput2" ELSE "DoEffect"
    [] OTHER -> "DoEffect"

\* The execute_slice callbacks the pixel renders use, by name.
execute_slice_pixel(name, is_float, fac, ibuf1, ibuf2) ==
  IF name = "do_cross_effect" THEN do_cross_effect(is_float, fac, ibuf1, ibuf2)
  ELSE do_alphaover_pixel(is_float, fac, ibuf1, ibuf2)

ByteVals == {0, 1, 128, 255}

BytePixelSet == {<<c, 255 - c, 7, a>> : c \in ByteVals, a \in {0, 255}}

FloatVals ==
  {FNaN, FInf(0), FInf(1), FFin(1, RZero), FZero, FOne, FFin(1, <<1, 2>>),
   FFin(0, <<3, 2>>)}

FloatAlphas == {FZero, FFin(0, <<1, 2>>), FOne, FFin(0, <<2, 1>>)}

FloatPixelSet ==
  {<<v, FOne, FFin(0, <<1, 4>>), a>> : v \in FloatVals, a \in FloatAlphas}

PixelEffects == {"CROSS", "ALPHAOVER", "SPEED"}

InitPixel ==
  /\ \E effect \in PixelEffects, is_float \in BOOLEAN, fac \in Factors :
       \E ibuf1, ibuf2 \in IF is_float THEN FloatPixelSet ELSE BytePixelSet :
         px = [effect |-> effect, is_float |-> is_float, fac |-> fac,
               ibuf1 |-> ibuf1, ibuf2 |-> ibuf2, pc |-> "ready",
               cross_fac |-> -1, out |-> <<>>]
  /\ OthersIdlePixel

\* A cross or alpha-over strip is rendered: the handle's early_out decides
\* whether an input is the result or execute_slice runs.
PixelRender ==
  /\ px.pc = "ready"
  /\ px.effect \in {"CROSS", "ALPHAOVER"}
  /\ LET sh == get_sequence_effect_impl(px.effect)
         early == early_out(sh.early_out, px.fac)
     IN px' = [px EXCEPT
                 !.pc = "done",
                 !.cross_fac = IF px.effect = "CROSS" THEN px.fac ELSE -1,
                 !.out = CASE early = "UseInput1" -> px.ibuf1
                           [] early = "UseInput2" -> px.ibuf2
                           [] OTHER ->
                                execute_slice_pixel(sh.execute_slice,
                                                    px.is_float, px.fac,
                                                    px.ibuf1, px.ibuf2)]

\* static ImBuf *do_speed_effect(...): with SEQ_SPEED_USE_INTERPOLATION the
\* cross executor runs on the current and the next frame, with the fraction
\* of the target frame as its factor; without it the result is ibuf1.
PixelRenderSpeed ==
  /\ px.pc = "ready"
  /\ px.effect = "SPEED"
  /\ \E interpolate \in BOOLEAN, ratio \in Factors \ {FacDen} :
       LET cross_effect == get_sequence_effect_impl("CROSS")
       IN px' = [px EXCEPT
                   !.pc = "done",
                   !.cross_fac = IF interpolate THEN ratio ELSE -1,
                   !.out = IF interpolate
                             THEN execute_slice_pixel(
                                    cross_effect.execute_slice, px.is_float,
                                    ratio, px.ibuf1, px.ibuf2)
                             ELSE px.ibuf1]

NextPixel ==
  \/ PixelRender /\ UNCHANGED othersPixel
  \/ PixelRenderSpeed /\ UNCHANGED othersPixel

SpecPixel == InitPixel /\ [][NextPixel]_vars

\* C9: cross at factor 0 gives input 1 and at factor 1 input 2, the same
\* bits, through the early-out and through the cross executor.
C9_CrossIdentity ==
  px.pc = "done" =>
    /\ px.cross_fac = 0 => px.out = px.ibuf1
    /\ px.cross_fac = FacDen => px.out = px.ibuf2

\* What does hold: the identity through the early-out of a cross strip, and
\* through the executor on byte pixels.
CrossIdentityEarlyOutOrByte ==
  px.pc = "done" /\ (px.effect = "CROSS" \/ ~px.is_float) =>
    /\ px.cross_fac = 0 => px.out = px.ibuf1
    /\ px.cross_fac = FacDen => px.out = px.ibuf2

\* Whether the top pixel is fully opaque.
TopOpaque ==
  IF px.is_float THEN alpha_opaque_float(px.ibuf1[4]) ELSE px.ibuf1[4] = 255

\* C10: alpha-over at factor 1 with a fully opaque top pixel gives the top
\* pixel, whatever the background pixel.
C10_OpaqueTopWins ==
  px.pc = "done" /\ px.effect = "ALPHAOVER" /\ px.fac = FacDen /\ TopOpaque =>
    px.out = px.ibuf1

\* Alpha-over ran at factor 1 on a float pixel with alpha 1 over a background
\* whose first channel is infinite.
C10_Witness ==
  /\ px.pc = "done"
  /\ px.effect = "ALPHAOVER"
  /\ px.fac = FacDen
  /\ px.is_float
  /\ px.ibuf1[4] = FOne
  /\ px.ibuf1[1] = FFin(0, <<3, 2>>)
  /\ px.ibuf2[1] = FInf(0)
  /\ px.ibuf2[4] = FOne
  /\ px.out = px.ibuf1

(***************************************************************************)
(* Add, subtract and multiply: the byte executor and the float executor on *)
(* the same opaque colors. Float values are rationals: the arithmetic of   *)
(* the float executors is taken as exact.                                  *)
(***************************************************************************)

RMax(a, b) == IF RLe(a, b) THEN b ELSE a

\* The loop body of do_add_effect_float.
add_pixel_float(fac, rt1, rt2) ==
  LET temp_fac == RMul(RSub(ROne, RMul(rt1[4], RSub(ROne, FacOf(fac)))),
                       rt2[4])
  IN [c \in 1 .. 4 |->
        IF c = 4 THEN rt1[4] ELSE RAdd(rt1[c], RMul(temp_fac, rt2[c]))]

\* The loop body of do_sub_effect_float.
sub_pixel_float(fac, rt1, rt2) ==
  LET mfac == RSub(ROne, FacOf(fac))
      temp_fac == RMul(RSub(ROne, RMul(rt1[4], mfac)), rt2[4])
  IN [c \in 1 .. 4 |->
        IF c = 4 THEN rt1[4]
        ELSE RMax(RSub(rt1[c], RMul(temp_fac, rt2[c])), RZero)]

\* The loop body of do_mul_effect_float.
mul_pixel_float(fac, rt1, rt2) ==
  [c \in 1 .. 4 |->
     RAdd(rt1[c], RMul(RMul(FacOf(fac), rt1[c]), RSub(rt2[c], ROne)))]

\* do_add_effect, do_sub_effect and do_mul_effect on one pixel: the float
\* executor when the output has a float buffer.
do_blend_effect(effect, is_float, fac, ibuf1, ibuf2) ==
  CASE effect = "ADD" ->
         IF is_float THEN add_pixel_float(fac, ibuf1, ibuf2)
         ELSE add_pixel_byte(fac, ibuf1, ibuf2)
    [] effect = "SUB" ->
         IF is_float THEN sub_pixel_float(fac, ibuf1, ibuf2)
         ELSE sub_pixel_byte(fac, ibuf1, ibuf2)
    [] effect = "MUL" ->
         IF is_float THEN mul_pixel_float(fac, ibuf1, ibuf2)
         ELSE mul_pixel_byte(fac, ibuf1, ibuf2)

\* A byte pixel scaled to [0, 1].
ScaledToUnit(pix) == [c \in 1 .. 4 |-> Rat(pix[c], 255)]

EquivEffects == {"ADD", "SUB", "MUL"}

\* An opaque pixel whose first channel is c.
OpaquePixel(c) == <<c, 255 - c, (3 * c) % 256, 255>>

InitEquiv ==
  /\ \E effect \in EquivEffects, c1 \in 0 .. 255 :
       eqv = [effect |-> effect, c1 |-> c1, c2 |-> -1, pc |-> "ready",
              byte_out |-> <<>>, float_out |-> <<>>]
  /\ OthersIdleEquiv

\* The strip is rendered at factor 1 on byte buffers, and on float buffers
\* that hold the same colors.
EquivRender ==
  /\ eqv.pc = "ready"
  /\ \E c2 \in 0 .. 255 :
       eqv' = [eqv EXCEPT
                 !.pc = "done", !.c2 = c2,
                 !.byte_out = do_blend_effect(eqv.effect, FALSE, FacDen,
                                              OpaquePixel(eqv.c1),
                                              OpaquePixel(c2)),
                 !.float_out = do_blend_effect(
                                 eqv.effect, TRUE, FacDen,
                                 ScaledToUnit(OpaquePixel(eqv.c1)),
                                 ScaledToUnit(OpaquePixel(c2)))]

NextEquiv == EquivRender /\ UNCHANGED othersEquiv

SpecEquiv == InitEquiv /\ [][NextEquiv]_vars

\* Whether the two outputs differ by at most 1/255 in every channel.
WithinTolerance ==
  \A c \in 1 .. 4 :
    LET d == RSub(ScaledToUnit(eqv.byte_out)[c], eqv.float_out[c])
    IN RLe(<<Abs(d[1]), d[2]>>, Rat(1, 255))

\* C11: for add, subtract and multiply at factor 1 on opaque inputs, the byte
\* output and the float output differ by at most 1/255 in every channel.
C11_ByteFloatEquivalent == eqv.pc = "done" => WithinTolerance

\* What does hold: the tolerance for subtract and multiply, and for add where
\* the sum of no channel passes 255.
ByteFloatEquivalentUnsaturated ==
  eqv.pc = "done"
  /\ (eqv.effect = "ADD" =>
        \A c \in 1 .. 3 :
          OpaquePixel(eqv.c1)[c] + OpaquePixel(eqv.c2)[c] <= 256)
  => WithinTolerance

(***************************************************************************)
(* Text outline: jump flooding from a mask with one or two opaque pixels   *)
(***************************************************************************)

MaxJfaSize == 5
MaxOutlineWidth == 4

JFA_INVALID == 65535

invalid_coord == <<JFA_INVALID, JFA_INVALID>>

\* int power_of_2_max_i(int n): the smallest power of two that is >= n.
RECURSIVE power_of_2_from(_, _)
power_of_2_from(p, n) == IF p >= n THEN p ELSE power_of_2_from(2 * p, n)

power_of_2_max_i(n) == power_of_2_from(1, n)

clamp_i(value, min, max) == Min(Max(value, min), max)

\* The nine samples of jump_flooding_pass in the order of its loops: dy
\* outside, dx inside.
JfaOffsets(step_size) ==
  [k \in 1 .. 9 |->
     <<(((k - 1) % 3) - 1) * step_size, (((k - 1) \div 3) - 1) * step_size>>]

\* The inner loops of jump_flooding_pass at pixel (x, y) from sample k on:
\* the closest texel so far and its squared distance, -1 for none yet.
RECURSIVE JfaScan(_, _, _, _, _, _, _, _)
JfaScan(input, size, x, y, offsets, k, closest_texel, minimum) ==
  IF k > 9 THEN closest_texel
  ELSE LET xx == x + offsets[k][1]
           yy == y + offsets[k][2]
       IN IF yy < 0 \/ yy >= size[2] \/ xx < 0 \/ xx >= size[1]
            THEN JfaScan(input, size, x, y, offsets, k + 1, closest_texel,
                         minimum)
          ELSE IF input[yy * size[1] + xx][1] = JFA_INVALID
            THEN JfaScan(input, size, x, y, offsets, k + 1, closest_texel,
                         minimum)
          ELSE LET val == input[yy * size[1] + xx]
                   squared_distance ==
                     (val[1] - x) * (val[1] - x) + (val[2] - y) * (val[2] - y)
               IN IF minimum < 0 \/ squared_distance < minimum
                    THEN JfaScan(input, size, x, y, offsets, k + 1, val,
                                 squared_distance)
                    ELSE JfaScan(input, size, x, y, offsets, k + 1,
                                 closest_texel, minimum)

\* A bug to compare with: the pass samples the buffer it writes.
jump_flooding_pass_in_place(input, output, size, rect, step_size) ==
  [i \in DOMAIN output |->
     IF /\ i % size[1] \in rect.xmin .. rect.xmax
        /\ i \div size[1] \in rect.ymin .. rect.ymax
       THEN JfaScan(output, size, i % size[1], i \div size[1],
                    JfaOffsets(step_size), 1, invalid_coord, -1)
       ELSE output[i]]

\* static void jump_flooding_pass(...): the output after the pass.
jump_flooding_pass(input, output, size, rect, step_size) ==
  [i \in DOMAIN output |->
     IF /\ i % size[1] \in rect.xmin .. rect.xmax
        /\ i \div size[1] \in rect.ymin .. rect.ymax
       THEN JfaScan(input, size, i % size[1], i \div size[1],
                    JfaOffsets(step_size), 1, invalid_coord, -1)
       ELSE output[i]]

\* The bounding box of the text: that of its opaque pixels.
text_boundbox(opaque) ==
  [xmin |-> CHOOSE v \in {p[1] : p \in opaque} : \A p \in opaque : v <= p[1],
   xmax |-> CHOOSE v \in {p[1] : p \in opaque} : \A p \in opaque : v >= p[1],
   ymin |-> CHOOSE v \in {p[2] : p \in opaque} : \A p \in opaque : v <= p[2],
   ymax |-> CHOOSE v \in {p[2] : p \in opaque} : \A p \in opaque : v >= p[2]]

\* The rectangle draw_text_outline processes: the bounding box of the text
\* padded and clamped to the image.
outline_rect(size, boundbox, outline_width) ==
  [xmin |-> clamp_i(boundbox.xmin - (outline_width + 1), 0, size[1] - 1),
   xmax |-> clamp_i(boundbox.xmax + (outline_width + 1), 0, size[1] - 1),
   ymin |-> clamp_i(boundbox.ymin - (outline_width + 1), 0, size[2] - 1),
   ymax |-> clamp_i(boundbox.ymax + (outline_width + 1), 0, size[2] - 1)]

\* The text is the pixel (x0, y0) alone, or that pixel and the one opposite
\* to it in the image.
InitJfa ==
  /\ \E sx, sy \in 1 .. MaxJfaSize, outline_width \in 1 .. MaxOutlineWidth :
       \E x0 \in 0 .. sx - 1, y0 \in 0 .. sy - 1 :
         \E opaque \in {{<<x0, y0>>},
                        {<<x0, y0>>, <<sx - 1 - x0, sy - 1 - y0>>}} :
           jfa = [size |-> <<sx, sy>>, x0 |-> x0, y0 |-> y0,
                  opaque |-> opaque, outline_width |-> outline_width,
                  rect |-> outline_rect(<<sx, sy>>, text_boundbox(opaque),
                                        outline_width),
                  pc |-> "init", step_size |-> -1, flood |-> <<>>,
                  other |-> <<>>, steps |-> <<>>]
  /\ OthersIdleJfa

\* draw_text_outline up to its loop: the boundary from the mask, the pass
\* with step 1 and the first step size of the loop.
JfaFirstPass ==
  /\ jfa.pc = "init"
  /\ LET pixels == 0 .. jfa.size[1] * jfa.size[2] - 1
         boundary == [i \in pixels |->
                        IF <<i % jfa.size[1], i \div jfa.size[1]>>
                             \in jfa.opaque
                          THEN <<i % jfa.size[1], i \div jfa.size[1]>>
                          ELSE invalid_coord]
         cleared == [i \in pixels |-> invalid_coord]
     IN jfa' = [jfa EXCEPT
                  !.pc = "loop",
                  !.flood = jump_flooding_pass(boundary, cleared, jfa.size,
                                               jfa.rect, 1),
                  !.other = cleared,
                  !.step_size = power_of_2_max_i(jfa.outline_width) \div 2]

\* One turn of the loop: a pass, the swap of the buffers, the next step.
JfaLoopPass ==
  /\ jfa.pc = "loop"
  /\ jfa.step_size # 0
  /\ jfa' = [jfa EXCEPT
               !.flood = jump_flooding_pass(jfa.flood, jfa.other, jfa.size,
                                            jfa.rect, jfa.step_size),
               !.other = jfa.flood,
               !.steps = Append(jfa.steps, jfa.step_size),
               !.step_size = jfa.step_size \div 2]

\* The loop ends.
JfaLoopEnd ==
  /\ jfa.pc = "loop"
  /\ jfa.step_size = 0
  /\ jfa' = [jfa EXCEPT !.pc = "done"]

NextJfa ==
  \/ JfaFirstPass /\ UNCHANGED othersJfa
  \/ JfaLoopPass /\ UNCHANGED othersJfa
  \/ JfaLoopEnd /\ UNCHANGED othersJfa

SpecJfa == InitJfa /\ [][NextJfa]_vars

\* The pixels of the processed rectangle.
InOutlineRect(i) ==
  /\ i % jfa.size[1] \in jfa.rect.xmin .. jfa.rect.xmax
  /\ i \div jfa.size[1] \in jfa.rect.ymin .. jfa.rect.ymax

\* The larger of the horizontal and vertical distance of pixel i from (x0, y0).
ReachOf(i) ==
  Max(Abs((i % jfa.size[1]) - jfa.x0), Abs((i \div jfa.size[1]) - jfa.y0))

\* C12: after the passes every pixel of the processed rectangle holds the
\* coordinate of the one opaque pixel.
C12_FloodReachesAll ==
  jfa.pc = "done" /\ jfa.opaque = {<<jfa.x0, jfa.y0>>} =>
    \A i \in DOMAIN jfa.flood :
      InOutlineRect(i) => jfa.flood[i] = <<jfa.x0, jfa.y0>>

\* What does hold: a pixel of the rectangle holds the coordinate when it is
\* within power_of_2_max_i(outline_width) of the opaque pixel, and is
\* invalid beyond.
FloodReachesPowerOfTwo ==
  jfa.pc = "done" /\ jfa.opaque = {<<jfa.x0, jfa.y0>>} =>
    \A i \in DOMAIN jfa.flood :
      InOutlineRect(i) =>
        jfa.flood[i] = IF ReachOf(i) <= power_of_2_max_i(jfa.outline_width)
                         THEN <<jfa.x0, jfa.y0>> ELSE invalid_coord

\* The squared distance of pixel i to the coordinate c.
JfaSquaredDistance(i, c) ==
  (c[1] - (i % jfa.size[1])) * (c[1] - (i % jfa.size[1]))
    + (c[2] - (i \div jfa.size[1])) * (c[2] - (i \div jfa.size[1]))

\* C28: after every pass a pixel of the rectangle holds the invalid
\* sentinel or the coordinates of a pixel that is opaque in the mask; an
\* opaque pixel holds itself; and a pixel that held a candidate before the
\* last pass of the loop holds one after it, and none further away.
C28_CandidatesOpaqueAndMonotone ==
  jfa.pc \in {"loop", "done"} =>
    \A i \in DOMAIN jfa.flood :
      InOutlineRect(i) =>
        /\ jfa.flood[i] = invalid_coord \/ jfa.flood[i] \in jfa.opaque
        /\ <<i % jfa.size[1], i \div jfa.size[1]>> \in jfa.opaque =>
             jfa.flood[i] = <<i % jfa.size[1], i \div jfa.size[1]>>
        /\ jfa.other[i] # invalid_coord =>
             /\ jfa.flood[i] # invalid_coord
             /\ JfaSquaredDistance(i, jfa.flood[i])
                  <= JfaSquaredDistance(i, jfa.other[i])

\* With two opaque pixels in the mask, a pass of the loop replaced the
\* candidate of a pixel by a closer one, or gave one to a pixel without.
C28_Witness ==
  /\ jfa.pc = "done"
  /\ Cardinality(jfa.opaque) = 2
  /\ Len(jfa.steps) >= 2
  /\ \E i \in DOMAIN jfa.flood :
       /\ InOutlineRect(i)
       /\ jfa.other[i] = invalid_coord
       /\ jfa.flood[i] # invalid_coord
  /\ \E i, j \in DOMAIN jfa.flood :
       /\ InOutlineRect(i) /\ InOutlineRect(j)
       /\ jfa.flood[i] # invalid_coord /\ jfa.flood[j] # invalid_coord
       /\ jfa.flood[i] # jfa.flood[j]

\* The step sizes p, p / 2, ..., 1; none for p = 0.
RECURSIVE Halvings(_)
Halvings(p) == IF p = 0 THEN <<>> ELSE <<p>> \o Halvings(p \div 2)

\* The largest power of two that is at most half of n; 0 when there is none
\* among the step sizes, for n = 1.
RECURSIVE HalfPowerBelow(_, _)
HalfPowerBelow(p, n) ==
  IF 2 * p > n THEN 0
  ELSE IF 4 * p > n THEN p ELSE HalfPowerBelow(2 * p, n)

\* C21: the loop's passes use the step sizes that start at the largest
\* power of two not above half the outline width and halve down to 1, and
\* there are as many passes as such steps, log2 of the first step plus 1.
C21_StepsFromHalfWidth ==
  jfa.pc = "done" =>
    jfa.steps = Halvings(HalfPowerBelow(1, jfa.outline_width))

\* What does hold: the steps start at half of power_of_2_max_i of the
\* outline width, the smallest power of two that is not below the width,
\* and halve down to 1; an outline width of 1 gives no pass of the loop.
StepsFromPowerOfTwoMax ==
  jfa.pc = "done" =>
    jfa.steps = Halvings(power_of_2_max_i(jfa.outline_width) \div 2)

(***************************************************************************)
(* Gaussian blur. Pixels are float values in the passes, as in the code;   *)
(* a byte image holds integers.                                            *)
(***************************************************************************)

BlurWidth == 2
BlurHeight == 2

\* The radii a strip may hold: none, one that rounds to a half size of 0,
\* and one with a half size of 1.
BlurSizes == {RZero, Rat(1, 4), ROne}

\* float RE_filter_value(R_FILTER_GAUSS, x) at the points the kernels of the
\* model use, to two digits: about 1/4 at 0 and exp(-4.5) of that at 1.
RE_filter_value(x) == IF x = RZero THEN Rat(1, 4) ELSE Rat(1, 360)

\* int(size + 0.5f)
HalfSizeOf(size) == (2 * size[1] + size[2]) \div (2 * size[2])

RECURSIVE RSum(_, _, _)
RSum(f, lo, hi) == IF lo > hi THEN RZero ELSE RAdd(f[lo], RSum(f, lo + 1, hi))

\* static Array<float> make_gaussian_blur_kernel(float rad, int size)
make_gaussian_blur_kernel(rad, size) ==
  LET fac == IF RLt(RZero, rad) THEN RInv(rad) ELSE RZero
      gaussian == [k \in 0 .. 2 * size |->
                     RE_filter_value(RMul(Rat(Abs(k - size), 1), fac))]
      inv_sum == RInv(RSum(gaussian, 0, 2 * size))
  IN [k \in 0 .. 2 * size |-> RMul(gaussian[k], inv_sum)]

\* float4(rect + offset): the pixel of a byte or float buffer as floats.
AsFloat4(is_float, pix) ==
  IF is_float THEN pix ELSE [c \in 1 .. 4 |-> FOfRat(Rat(pix[c], 1))]

\* The samples of one output pixel summed with their weights, from sample n
\* on: accum and accum_weight.
RECURSIVE BlurAccum(_, _, _, _, _, _)
BlurAccum(gaussian, samples, n, index, accum, accum_weight) ==
  IF n > Len(samples) THEN [accum |-> accum, accum_weight |-> accum_weight]
  ELSE BlurAccum(gaussian, samples, n + 1, index + 1,
                 [c \in 1 .. 4 |->
                    FAdd(accum[c],
                         FMul(samples[n][c], FOfRat(gaussian[index])))],
                 RAdd(accum_weight, gaussian[index]))

\* A bug to compare with: a rounding bias of 1 in place of 0.5.
gaussian_blur_store_bias_one(is_float, accum) ==
  IF is_float THEN accum
  ELSE [c \in 1 .. 4 |->
          (accum[c].v[1] + accum[c].v[2]) \div accum[c].v[2]]

\* The store of gaussian_blur_x and gaussian_blur_y: the floats as they are,
\* or accum + 0.5f converted to uchar.
gaussian_blur_store(is_float, accum) ==
  IF is_float THEN accum
  ELSE [c \in 1 .. 4 |->
          (2 * accum[c].v[1] + accum[c].v[2]) \div (2 * accum[c].v[2])]

\* The body of the loops of gaussian_blur_x and gaussian_blur_y for one
\* output pixel, given the samples of its window and the first kernel index.
gaussian_blur_pixel(gaussian, is_float, samples, index) ==
  The({gaussian_blur_store(
         is_float,
         [c \in 1 .. 4 |->
            FMul(r.accum[c], FOfRat(RInv(r.accum_weight)))]) :
       r \in {BlurAccum(gaussian, samples, 1, index,
                        [c \in 1 .. 4 |-> FZero], RZero)}})

\* static void gaussian_blur_x(...), over all rows.
gaussian_blur_x(gaussian, half_size, width, height, is_float, rect) ==
  [i \in 0 .. width * height - 1 |->
     LET x == i % width
         y == i \div width
         xmin == Max(x - half_size, 0)
         xmax == Min(x + half_size, width - 1)
     IN gaussian_blur_pixel(
          gaussian, is_float,
          [n \in 1 .. xmax - xmin + 1 |->
             AsFloat4(is_float, rect[y * width + xmin + n - 1])],
          (xmin - x) + half_size)]

\* static void gaussian_blur_y(...), over all rows.
gaussian_blur_y(gaussian, half_size, width, frame_height, is_float, rect) ==
  [i \in 0 .. width * frame_height - 1 |->
     LET x == i % width
         y == i \div width
         ymin == Max(y - half_size, 0)
         ymax == Min(y + half_size, frame_height - 1)
     IN gaussian_blur_pixel(
          gaussian, is_float,
          [n \in 1 .. ymax - ymin + 1 |->
             AsFloat4(is_float, rect[(ymin + n - 1) * width + x])],
          (ymin - y) + half_size)]

\* static StripEarlyOut early_out_gaussian_blur(const Sequence *seq, float)
early_out_gaussian_blur(size_x, size_y) ==
  IF size_x = RZero /\ size_y = RZero THEN "UseInput1" ELSE "DoEffect"

BlurPixels == 0 .. BlurWidth * BlurHeight - 1

BlurByteImages ==
  {[i \in BlurPixels |-> <<(v + 64 * i) % 256, 255 - v, (3 * v) % 256, 255>>] :
     v \in 0 .. 255}

BlurFloatImages ==
  {[i \in BlurPixels |-> <<v, FOne, FFin(0, Rat(i + 1, 4)), a>>] :
     v \in FloatVals, a \in FloatAlphas}

InitBlur ==
  /\ \E size_x, size_y \in BlurSizes, is_float \in BOOLEAN :
       \E ibuf1 \in IF is_float THEN BlurFloatImages ELSE BlurByteImages :
         blur = [size_x |-> size_x, size_y |-> size_y, is_float |-> is_float,
                 ibuf1 |-> ibuf1, pc |-> "ready", early |-> "none",
                 half_size_x |-> -1, half_size_y |-> -1, mid |-> <<>>,
                 out |-> <<>>]
  /\ OthersIdleBlur

\* The strip is rendered: the early-out decides whether input 1 is the
\* result or do_gaussian_blur_effect runs, which starts with the half sizes.
BlurEarlyOut ==
  /\ blur.pc = "ready"
  /\ \E early \in {early_out_gaussian_blur(blur.size_x, blur.size_y)} :
       blur' = IF early = "UseInput1"
                 THEN [blur EXCEPT !.pc = "done", !.early = early,
                                   !.out = blur.ibuf1]
                 ELSE [blur EXCEPT !.pc = "blur_x", !.early = early,
                                   !.half_size_x = HalfSizeOf(blur.size_x),
                                   !.half_size_y = HalfSizeOf(blur.size_y)]

\* do_gaussian_blur_effect: the horizontal blur of ibuf1.
BlurPassX ==
  /\ blur.pc = "blur_x"
  /\ blur' = [blur EXCEPT
                !.pc = "blur_y",
                !.mid = gaussian_blur_x(
                          make_gaussian_blur_kernel(blur.size_x,
                                                    blur.half_size_x),
                          blur.half_size_x, BlurWidth, BlurHeight,
                          blur.is_float, blur.ibuf1)]

\* do_gaussian_blur_effect: the vertical blur of the first output.
BlurPassY ==
  /\ blur.pc = "blur_y"
  /\ blur' = [blur EXCEPT
                !.pc = "done",
                !.out = gaussian_blur_y(
                          make_gaussian_blur_kernel(blur.size_y,
                                                    blur.half_size_y),
                          blur.half_size_y, BlurWidth, BlurHeight,
                          blur.is_float, blur.mid)]

NextBlur ==
  \/ BlurEarlyOut /\ UNCHANGED othersBlur
  \/ BlurPassX /\ UNCHANGED othersBlur
  \/ BlurPassY /\ UNCHANGED othersBlur

SpecBlur == InitBlur /\ [][NextBlur]_vars

\* Whether two channel values are the same value: the same integer, or the
\* same float, where -0 and +0 are one value and so are all not-a-numbers.
SameValue(is_float, a, b) ==
  IF ~is_float THEN a = b
  ELSE \/ a = b
       \/ a.k = "nan" /\ b.k = "nan"
       \/ FIsZero(a) /\ FIsZero(b)

SameImage(is_float, p, q) ==
  \A i \in BlurPixels : \A c \in 1 .. 4 : SameValue(is_float, p[i][c], q[i][c])

C20_ZeroRadiusEarlyOut ==
  /\ blur.pc # "ready" /\ (blur.size_x = RZero \/ blur.size_y = RZero) =>
       blur.early = "UseInput1"
  /\ blur.pc \in {"blur_x", "blur_y"} =>
       blur.half_size_x # 0 /\ blur.half_size_y # 0

\* What does hold: the early-out returns UseInput1 exactly when both sizes
\* are 0, and the passes run in every other case.
EarlyOutWhenBothZero ==
  blur.pc # "ready" =>
    (blur.early = "UseInput1" <=>
       blur.size_x = RZero /\ blur.size_y = RZero)

\* The full-kernel weighted sums of a pass over the edge-extended image: a
\* tap outside the image reads the nearest pixel of the row (along = "x")
\* or of the column (along = "y").
EdgeExtendedBlur(along, gaussian, half_size, is_float, rect) ==
  [i \in BlurPixels |->
     gaussian_blur_pixel(
       gaussian, is_float,
       [n \in 1 .. 2 * half_size + 1 |->
          AsFloat4(is_float,
                   IF along = "x"
                     THEN rect[(i \div BlurWidth) * BlurWidth
                               + clamp_i((i % BlurWidth) - half_size + n - 1,
                                         0, BlurWidth - 1)]
                     ELSE rect[clamp_i((i \div BlurWidth) - half_size + n - 1,
                                       0, BlurHeight - 1) * BlurWidth
                               + (i % BlurWidth)])],
       0)]

\* C22: each pass writes, for every pixel, the full-kernel weighted sum
\* over the edge-extended image: a tap outside the image counts as the
\* nearest pixel of the row or column.
C22_EdgeReplication ==
  /\ blur.pc \in {"blur_y", "done"} /\ blur.early = "DoEffect" =>
       SameImage(blur.is_float, blur.mid,
                 EdgeExtendedBlur("x",
                                  make_gaussian_blur_kernel(blur.size_x,
                                                            blur.half_size_x),
                                  blur.half_size_x, blur.is_float,
                                  blur.ibuf1))
  /\ blur.pc = "done" /\ blur.early = "DoEffect" =>
       SameImage(blur.is_float, blur.out,
                 EdgeExtendedBlur("y",
                                  make_gaussian_blur_kernel(blur.size_y,
                                                            blur.half_size_y),
                                  blur.half_size_y, blur.is_float, blur.mid))

\* What does hold: a pass whose window never leaves the image, here one
\* with a half size of 0, writes the edge-extended sum.
EdgeExtendedWhenInside ==
  /\ blur.pc \in {"blur_y", "done"} /\ blur.early = "DoEffect"
       /\ blur.half_size_x = 0 =>
       SameImage(blur.is_float, blur.mid,
                 EdgeExtendedBlur("x",
                                  make_gaussian_blur_kernel(blur.size_x, 0),
                                  0, blur.is_float, blur.ibuf1))
  /\ blur.pc = "done" /\ blur.early = "DoEffect" /\ blur.half_size_y = 0 =>
       SameImage(blur.is_float, blur.out,
                 EdgeExtendedBlur("y",
                                  make_gaussian_blur_kernel(blur.size_y, 0),
                                  0, blur.is_float, blur.mid))

(***************************************************************************)
(* Speed effect: the frame of the source a frame of the effect shows.      *)
(* Frames are rationals; the float arithmetic is taken as exact.           *)
(***************************************************************************)

SpeedControlTypes ==
  {"SEQ_SPEED_STRETCH", "SEQ_SPEED_MULTIPLY", "SEQ_SPEED_LENGTH",
   "SEQ_SPEED_FRAME_NUMBER"}

\* Lengths of the source and of the effect strip, in frames.
SpeedLengths == {5, 10}

MaxSpeedStart == 1

\* The values of speed_fader, of the curve, of speed_fader_length / 100 and
\* of speed_fader_frame_number the model uses.
SpeedFaders == {Rat(1, 2), Rat(3, 1)}

RClamp(v, lo, hi) == IF RLt(v, lo) THEN lo ELSE IF RLt(hi, v) THEN hi ELSE v

RCeil(v) == Rat(-((-v[1]) \div v[2]), 1)

\* void seq_effect_speed_rebuild_map(...): the frame map for a curve that is
\* `value` at every frame.
speed_frame_map(value, effect_strip_length, target_frame_max) ==
  [frame_index \in 0 .. effect_strip_length - 1 |->
     RClamp(RMul(Rat(frame_index, 1), value), RZero,
            Rat(target_frame_max, 1))]

\* A bug to compare with: the ratio taken over the last frame index.
speed_stretch_target_last_index(frame_index, target_content_length, speed_effect_length) ==
  RMul(Rat(target_content_length, 1),
       Rat(frame_index, Max(speed_effect_length - 1, 1)))

\* case SEQ_SPEED_STRETCH of seq_speed_effect_target_frame_get
speed_stretch_target(frame_index, target_content_length, speed_effect_length) ==
  RMul(Rat(target_content_length, 1), Rat(frame_index, speed_effect_length))

\* float seq_speed_effect_target_frame_get(Scene *scene, Sequence *seq_speed,
\* float timeline_frame, int input), with the frame index of timeline_frame.
seq_speed_effect_target_frame_get(s, frame_index, input) ==
  IF ~s.has_input THEN RZero
  ELSE The({IF ~s.interpolate \/ input = 0 THEN target_frame
            ELSE RCeil(target_frame) :
            target_frame \in
              {RAdd(RClamp(
                      CASE s.type = "SEQ_SPEED_STRETCH" ->
                             speed_stretch_target(frame_index,
                                                  s.len - s.startofs,
                                                  s.effect_len)
                        [] s.type = "SEQ_SPEED_MULTIPLY" ->
                             IF s.has_fcurve
                               THEN speed_frame_map(s.fader, s.effect_len,
                                                    s.len)[frame_index]
                               ELSE RMul(Rat(frame_index, 1), s.fader)
                        [] s.type = "SEQ_SPEED_LENGTH" ->
                             RMul(Rat(s.len, 1), s.fader)
                        [] s.type = "SEQ_SPEED_FRAME_NUMBER" -> s.fader,
                      RZero, Rat(s.len, 1)),
                    Rat(s.start, 1))}})

InitSpeed ==
  /\ \E type \in SpeedControlTypes, has_input, has_fcurve \in BOOLEAN,
        len, effect_len \in SpeedLengths, start \in 0 .. MaxSpeedStart,
        fader \in SpeedFaders, interpolate \in BOOLEAN :
       \E startofs \in {0, len - 3} :
         /\ has_fcurve => type = "SEQ_SPEED_MULTIPLY"
         /\ ~has_input => type = "SEQ_SPEED_STRETCH" /\ startofs = 0
         /\ spd = [type |-> type, has_input |-> has_input,
                   has_fcurve |-> has_fcurve, len |-> len,
                   startofs |-> startofs, effect_len |-> effect_len,
                   start |-> start, fader |-> fader,
                   interpolate |-> interpolate, frame_index |-> -1,
                   input |-> -1, pc |-> "ready", target |-> RZero]
  /\ OthersIdleSpeed

\* The target frame of one frame of the effect strip is asked for.
SpeedTargetFrame ==
  /\ spd.pc = "ready"
  /\ \E frame_index \in 0 .. spd.effect_len - 1, input \in {0, 1} :
       spd' = [spd EXCEPT
                 !.pc = "done", !.frame_index = frame_index,
                 !.input = input,
                 !.target = seq_speed_effect_target_frame_get(
                              spd, frame_index, input)]

NextSpeed == SpeedTargetFrame /\ UNCHANGED othersSpeed

SpecSpeed == InitSpeed /\ [][NextSpeed]_vars

\* C14: a stretch of a 10-frame source without start offset over a 10-frame
\* effect strip shows frame i of the source at frame i of the effect, for
\* every i in 0..9; both are counted from the start of the strip.
C14_StretchIdentity ==
  /\ spd.pc = "done"
  /\ spd.has_input
  /\ spd.type = "SEQ_SPEED_STRETCH"
  /\ spd.len = 10
  /\ spd.startofs = 0
  /\ spd.effect_len = 10
  => spd.target = Rat(spd.start + spd.frame_index, 1)

\* Frame 9 of such a strip that starts at frame 1 was looked up.
C14_Witness ==
  /\ spd.pc = "done"
  /\ spd.has_input
  /\ spd.type = "SEQ_SPEED_STRETCH"
  /\ spd.len = 10
  /\ spd.startofs = 0
  /\ spd.effect_len = 10
  /\ spd.start = 1
  /\ spd.frame_index = 9
  /\ spd.target = Rat(10, 1)

(***************************************************************************)
(* Wipe: the coverage check_zone gives a pixel. Floats are rationals; the  *)
(* library functions sqrtf, hypotf and atan2f are computed to a few        *)
(* digits, and the angle of the wipe is given by its tangent.              *)
(***************************************************************************)

WipeTypes ==
  {"DO_SINGLE_WIPE", "DO_DOUBLE_WIPE", "DO_CLOCK_WIPE", "DO_IRIS_WIPE"}

\* Image sizes, widths of the edge and factors strictly between 0 and 1.
WipeSizes == {<<4, 3>>, <<3, 4>>}
WipeEdgeWidths == {RZero, Rat(1, 2)}
WipeFacDen == 4
WipeFactors == {Rat(k, WipeFacDen) : k \in 1 .. WipeFacDen - 1}

\* tanf(fabsf(angle)) for the angles of the model.
WipeTangents == {RZero, Rat(3, 4)}

\* float(M_PI), to two digits.
M_PI == Rat(22, 7)

\* The result of 0.0f / 0.0f.
WipeNaN == <<0, 0>>

RAbs(v) == <<Abs(v[1]), v[2]>>
RMin(a, b) == IF RLt(b, a) THEN b ELSE a
RInt(n) == <<n, 1>>

\* The int a float converts to.
Trunc(v) == IF v[1] < 0 THEN -((-v[1]) \div v[2]) ELSE v[1] \div v[2]

\* 1 - v and a * b, where the operands may be not-a-number.
OneMinus(v) == IF v = WipeNaN THEN WipeNaN ELSE RSub(ROne, v)
TimesNaN(a, b) == IF a = WipeNaN \/ b = WipeNaN THEN WipeNaN ELSE RMul(a, b)

RECURSIVE ISqrt(_, _, _)
ISqrt(m, lo, hi) ==
  IF lo >= hi THEN lo
  ELSE LET mid == (lo + hi + 1) \div 2
       IN IF mid * mid <= m THEN ISqrt(m, mid, hi) ELSE ISqrt(m, lo, mid - 1)

\* sqrtf(v), rounded down to a multiple of 1/64.
sqrtf(v) == Rat(ISqrt((v[1] * 4096) \div v[2], 0, 4096), 64)

\* hypotf(a, b)
hypotf(a, b) == sqrtf(RAdd(RMul(a, a), RMul(b, b)))

\* atan(z) / (2 pi) for 0 <= z <= 1, to two digits.
AtanTurns(z) == RMul(z, RAdd(Rat(1, 8), RMul(RSub(ROne, z), Rat(1, 23))))

\* atan2f(y, x) for integers, in (-pi, pi].
atan2f(y, x) ==
  IF x = 0 /\ y = 0 THEN RZero
  ELSE LET first == IF Abs(y) <= Abs(x) THEN AtanTurns(Rat(Abs(y), Abs(x)))
                    ELSE RSub(Rat(1, 4), AtanTurns(Rat(Abs(x), Abs(y))))
           upper == IF x >= 0 THEN first ELSE RSub(Rat(1, 2), first)
           turns == IF y >= 0 THEN upper ELSE RSub(RZero, upper)
       IN RMul(RMul(RInt(2), M_PI), turns)

\* static WipeZone precalc_wipe_zone(const WipeVars *wipe, int xo, int yo)
precalc_wipe_zone(w, xo, yo) ==
  [flip |-> w.flip, angle |-> w.tan, xo |-> xo, yo |-> yo,
   width |-> Trunc(RMul(w.edgeWidth, Rat(xo + yo, 2))),
   pythangle |-> RInv(sqrtf(RAdd(RMul(w.tan, w.tan), ROne))),
   clockWidth |-> RMul(w.edgeWidth, M_PI),
   type |-> w.wipetype, forward |-> w.forward]

\* A bug to compare with: without the return for a width of 0.
in_band_no_zero_width(width, dist, side, dir) ==
  IF RLt(width, dist) THEN RInt(side)
  ELSE IF width = RZero THEN WipeNaN
  ELSE LET alpha == IF side = 1
                      THEN RMul(RAdd(dist, RMul(Rat(1, 2), width)),
                                RInv(width))
                      ELSE RMul(RSub(RMul(Rat(1, 2), width), dist),
                                RInv(width))
       IN IF dir = 0 THEN RSub(ROne, alpha) ELSE alpha

\* static float in_band(float width, float dist, int side, int dir)
in_band(width, dist, side, dir) ==
  IF width = RZero THEN RInt(side)
  ELSE IF RLt(width, dist) THEN RInt(side)
  ELSE LET alpha == IF side = 1
                      THEN RMul(RAdd(dist, RMul(Rat(1, 2), width)),
                                RInv(width))
                      ELSE RMul(RSub(RMul(Rat(1, 2), width), dist),
                                RInv(width))
       IN IF dir = 0 THEN RSub(ROne, alpha) ELSE alpha

\* y - (-angle) * x, or y for an angle of 0: the side of the line a point
\* is on.
WipeLine(z, x, y) ==
  IF z.angle = RZero THEN y ELSE RAdd(y, RMul(z.angle, x))

\* The distance of pixel (x, y) from the line through (lx, ly).
WipeHyp(z, x, y, lx, ly) ==
  IF z.angle = RZero THEN RAbs(RSub(RInt(y), ly))
  ELSE RMul(RAbs(RSub(RAdd(RMul(z.angle, RInt(x)), RInt(y)),
                      RAdd(ly, RMul(z.angle, lx)))),
            z.pythangle)

\* case DO_SINGLE_WIPE of check_zone
check_zone_single(z, x, y, fac, posx, posy) ==
  The({IF z.forward = RLt(b1, b2) THEN in_band(width, hyp, 1, 1)
       ELSE in_band(width, hyp, 0, 1) :
       width \in {RInt(Min(Min(z.width, Trunc(RMul(fac, RInt(z.yo)))),
                           Trunc(RSub(RInt(z.yo), RMul(fac, RInt(z.yo))))))},
       hyp \in {WipeHyp(z, x, y, posx, posy)},
       b1 \in {IF RLt(z.angle, RZero) THEN WipeLine(z, RInt(x), RInt(y))
               ELSE WipeLine(z, posx, posy)},
       b2 \in {IF RLt(z.angle, RZero) THEN WipeLine(z, posx, posy)
               ELSE WipeLine(z, RInt(x), RInt(y))}})

\* The branches of case DO_DOUBLE_WIPE once the lines and distances are
\* known.
check_zone_double_band(b1, b2, b3, hyp, hyp2, hwidth) ==
  IF RLt(b2, b1) /\ RLt(b2, b3) THEN in_band(hwidth, hyp, 0, 1)
  ELSE IF RLt(b1, b2) /\ RLt(b3, b2) THEN in_band(hwidth, hyp2, 0, 1)
  ELSE IF RLt(hyp, hwidth) /\ RLt(hwidth, hyp2)
    THEN in_band(hwidth, hyp, 1, 1)
  ELSE IF RLt(hwidth, hyp) /\ RLt(hyp2, hwidth)
    THEN in_band(hwidth, hyp2, 1, 1)
  ELSE The({TimesNaN(first, second) :
            first \in {in_band(hwidth, hyp2, 1, 1)},
            second \in {in_band(hwidth, hyp, 1, 1)}})

\* case DO_DOUBLE_WIPE of check_zone
check_zone_double(z, x, y, posx, posy) ==
  The({The({IF z.forward THEN output ELSE OneMinus(output) :
            output \in {check_zone_double_band(
                          b1, b2, b3, hyp, hyp2,
                          RMin(RMul(RInt(z.width), Rat(1, 2)),
                               RMul(RAbs(RSub(b3, b1)), Rat(1, 2))))}}) :
       b1 \in {WipeLine(z, RMul(posx, Rat(1, 2)), RMul(posy, Rat(1, 2)))},
       b3 \in {WipeLine(z, RSub(RInt(z.xo), RMul(posx, Rat(1, 2))),
                        RSub(RInt(z.yo), RMul(posy, Rat(1, 2))))},
       b2 \in {WipeLine(z, RInt(x), RInt(y))},
       hyp \in {WipeHyp(z, x, y, RMul(posx, Rat(1, 2)),
                        RMul(posy, Rat(1, 2)))},
       hyp2 \in {WipeHyp(z, x, y, RSub(RInt(z.xo), RMul(posx, Rat(1, 2))),
                         RSub(RInt(z.yo), RMul(posy, Rat(1, 2))))}})

\* The ramp of case DO_CLOCK_WIPE between the clamped angles temp3 and
\* temp4, where 0 / 0 and the centre give 1.
check_zone_clock_ramp(x, y, temp2, temp3, temp4) ==
  IF x = 0 /\ y = 0 THEN ROne
  ELSE IF RLt(temp2, temp3) THEN RZero
  ELSE IF RLt(temp4, temp2) THEN ROne
  ELSE IF temp4 = temp3 THEN ROne
  ELSE RMul(RSub(temp2, temp3), RInv(RSub(temp4, temp3)))

\* case DO_CLOCK_WIPE of check_zone
check_zone_clock(z, x_in, y_in, fac) ==
  The({The({IF z.forward THEN RSub(ROne, output) ELSE output :
            output \in
              {check_zone_clock_ramp(
                 x, y,
                 IF RLt(angle, RZero) THEN RAdd(angle, two_pi) ELSE angle,
                 IF RLt(low, RZero) THEN RZero ELSE low,
                 IF RLt(two_pi, high) THEN two_pi ELSE high)}}) :
       two_pi \in {RMul(RInt(2), M_PI)},
       x \in {Trunc(RSub(RInt(x_in), Rat(z.xo, 2)))},
       y \in {Trunc(RSub(RInt(y_in), Rat(z.yo, 2)))},
       angle \in {atan2f(Trunc(RSub(RInt(y_in), Rat(z.yo, 2))),
                         Trunc(RSub(RInt(x_in), Rat(z.xo, 2))))},
       low \in {IF z.forward
                  THEN RSub(RMul(RMul(RInt(2), M_PI), RSub(ROne, fac)),
                            RMul(z.clockWidth, fac))
                  ELSE RSub(RMul(RMul(RInt(2), M_PI), fac),
                            RMul(z.clockWidth, RSub(ROne, fac)))},
       high \in {IF z.forward
                   THEN RAdd(RMul(RMul(RInt(2), M_PI), RSub(ROne, fac)),
                             RMul(z.clockWidth, RSub(ROne, fac)))
                   ELSE RAdd(RMul(RMul(RInt(2), M_PI), fac),
                             RMul(z.clockWidth, fac))}})

\* case DO_IRIS_WIPE of check_zone
check_zone_iris(z, x, y, fac_in) ==
  The({The({IF z.forward THEN output ELSE OneMinus(output) :
            output \in
              {IF RLt(pointdist, temp2)
                 THEN in_band(hwidth, RAbs(RSub(temp2, pointdist)), 0, 1)
                 ELSE in_band(hwidth, RAbs(RSub(temp2, pointdist)), 1, 1)}}) :
       hwidth \in {RMul(RInt(z.width), Rat(1, 2))},
       pointdist \in
         {hypotf(RMul(Rat(z.xo, 2),
                      IF z.forward THEN RSub(ROne, fac_in) ELSE fac_in),
                 RMul(Rat(z.xo, 2),
                      IF z.forward THEN RSub(ROne, fac_in) ELSE fac_in))},
       temp2 \in {hypotf(RSub(Rat(z.xo, 2), RInt(x)),
                         RSub(Rat(z.yo, 2), RInt(y)))}})

\* static float check_zone(const WipeZone *wipezone, int x, int y, float fac)
check_zone(z, x_in, y, fac) ==
  The({The({IF RLt(output, RZero) THEN RZero
            ELSE IF RLt(ROne, output) THEN ROne ELSE output :
            output \in
              {CASE z.type = "DO_SINGLE_WIPE" ->
                      check_zone_single(z, x, y, fac, posx, posy)
                 [] z.type = "DO_DOUBLE_WIPE" ->
                      check_zone_double(z, x, y, posx, posy)
                 [] z.type = "DO_CLOCK_WIPE" -> check_zone_clock(z, x, y, fac)
                 [] z.type = "DO_IRIS_WIPE" -> check_zone_iris(z, x, y, fac)
                 [] OTHER -> RZero}}) :
       x \in {IF z.flip THEN z.xo - x_in ELSE x_in},
       posx \in {IF z.forward THEN RMul(fac, RInt(z.xo))
                 ELSE RSub(RInt(z.xo), RMul(fac, RInt(z.xo)))},
       posy \in {IF z.forward THEN RMul(fac, RInt(z.yo))
                 ELSE RSub(RInt(z.yo), RMul(fac, RInt(z.yo)))}})

InitWipe ==
  /\ \E wipetype \in WipeTypes, forward, flip \in BOOLEAN,
        edgeWidth \in WipeEdgeWidths, tan \in WipeTangents,
        size \in WipeSizes :
       wipe = [wipetype |-> wipetype, forward |-> forward,
               edgeWidth |-> edgeWidth, flip |-> flip, tan |-> tan,
               xo |-> size[1], yo |-> size[2], pc |-> "ready", x |-> -1,
               y |-> -1, fac |-> RZero, output |-> RZero]
  /\ OthersIdleWipe

\* do_wipe_effect asks for the coverage of one pixel.
WipeCheckZone ==
  /\ wipe.pc = "ready"
  /\ \E x \in 0 .. wipe.xo - 1, y \in 0 .. wipe.yo - 1, fac \in WipeFactors,
        wipezone \in {precalc_wipe_zone(wipe, wipe.xo, wipe.yo)} :
       \E check \in {check_zone(wipezone, x, y, fac)} :
         wipe' = [wipe EXCEPT !.pc = "done", !.x = x, !.y = y, !.fac = fac,
                              !.output = check]

NextWipe == WipeCheckZone /\ UNCHANGED othersWipe

SpecWipe == InitWipe /\ [][NextWipe]_vars

\* C15: with an edge width of 0 check_zone gives 0 or 1, for every pixel,
\* every factor strictly between 0 and 1, both directions and the four wipe
\* types.
C15_HardStep ==
  wipe.pc = "done" /\ wipe.edgeWidth = RZero =>
    wipe.output \in {RZero, ROne}

\* A clock wipe without edge width gave 1 to a pixel whose angle is that of
\* the hand, where the ramp is 0 / 0.
C15_Witness ==
  /\ wipe.pc = "done"
  /\ wipe.edgeWidth = RZero
  /\ wipe.wipetype = "DO_CLOCK_WIPE"
  /\ ~wipe.forward
  /\ wipe.fac = Rat(1, 4)
  /\ wipe.x = Trunc(Rat(wipe.xo, 2))
  /\ wipe.y > Trunc(Rat(wipe.yo, 2))
  /\ wipe.output = ROne

(***************************************************************************)
(* Text layout: the character list and the lines of apply_word_wrapping    *)
(***************************************************************************)

MaxTextLen == 4

\* The characters of a text, and the entry that ends every character list.
TextChars == {"a", "M", " ", "\n"}
NulChar == "nul"

\* runtime->line_height
LineHeight == 10

\* The values of wrap_width and of the image width the model uses.
WrapWidths == {RZero, Rat(1, 2)}
WrapImageWidths == {4, 12}

\* int BLF_glyph_advance(int fontid, const char *str): the advance of a
\* glyph; that of the terminating entry is the font's to choose.
BLF_glyph_advance(ch, nul_advance) ==
  CASE ch = "a" -> 2
    [] ch = "M" -> 3
    [] ch = " " -> 1
    [] ch = "\n" -> 0
    [] OTHER -> nul_advance

\* static blender::Vector<CharInfo> build_character_info(...): one entry per
\* character of the text and one for the terminator.
build_character_info(text, nul_advance) ==
  [i \in 1 .. Len(text) + 1 |->
     LET ch == IF i <= Len(text) THEN text[i] ELSE NulChar
     IN [index |-> i - 1, str |-> ch,
         advance_x |-> BLF_glyph_advance(ch, nul_advance),
         position |-> <<0, 0>>, do_wrap |-> FALSE]]

\* A bug to compare with: a wrap width of 0 taken as a width of 0 pixels.
wrap_width_get_no_limit(wrap_width, image_x) ==
  Trunc(RMul(wrap_width, RInt(image_x)))

\* static int wrap_width_get(const TextVars *data, const int2 image_size)
wrap_width_get(wrap_width, image_x) ==
  IF wrap_width = RZero THEN 2147483647
  ELSE Trunc(RMul(wrap_width, RInt(image_x)))

\* The first loop of apply_word_wrapping from character i on: the characters
\* with the positions of the spaces and the wrap marks set.
RECURSIVE WrapFirstPass(_, _, _, _, _)
WrapFirstPass(characters, i, wrap_width, char_position, last_space) ==
  IF i > Len(characters) THEN characters
  ELSE LET character == characters[i]
           placed == IF character.str = " "
                       THEN [characters EXCEPT ![i].position = char_position]
                       ELSE characters
           space == IF character.str = " " THEN i
                    ELSE IF character.str = "\n" THEN 0 ELSE last_space
           at == IF character.str = "\n" THEN <<0, char_position[2]>>
                 ELSE char_position
           wraps == character.str # NulChar /\ at[1] > wrap_width /\ space # 0
           marked == IF wraps THEN [placed EXCEPT ![space].do_wrap = TRUE]
                     ELSE placed
           back == IF wraps
                     THEN <<at[1] - (placed[space].position[1]
                                     + placed[space].advance_x),
                            at[2] - (placed[space].position[2]
                                     + placed[space].advance_x)>>
                     ELSE at
       IN WrapFirstPass(marked, i + 1, wrap_width,
                        <<back[1] + character.advance_x, back[2]>>, space)

\* The second loop of apply_word_wrapping from character i on: the lines.
RECURSIVE WrapSecondPass(_, _, _, _)
WrapSecondPass(characters, i, char_position, lines) ==
  IF i > Len(characters) THEN lines
  ELSE LET character == [characters[i] EXCEPT !.position = char_position]
           last == Len(lines)
           filled == [lines EXCEPT
                        ![last] = [characters |->
                                     Append(lines[last].characters, character),
                                   width |-> char_position[1]]]
           ends == character.do_wrap \/ character.str = "\n"
       IN WrapSecondPass(
            characters, i + 1,
            IF ends THEN <<0, char_position[2] - LineHeight>>
            ELSE <<char_position[1] + character.advance_x, char_position[2]>>,
            IF ends THEN Append(filled, [characters |-> <<>>, width |-> 0])
            ELSE filled)

\* A bug to compare with: the second loop stops before the terminating entry.
apply_word_wrapping_no_terminator(wrap_width, image_x, characters) ==
  The({WrapSecondPass(SubSeq(marked, 1, Len(marked) - 1), 1, <<0, 0>>,
                      <<[characters |-> <<>>, width |-> 0]>>) :
       marked \in {WrapFirstPass(characters, 1,
                                 wrap_width_get(wrap_width, image_x),
                                 <<0, 0>>, 0)}})

\* static void apply_word_wrapping(...): the lines of the runtime.
apply_word_wrapping(wrap_width, image_x, characters) ==
  The({WrapSecondPass(marked, 1, <<0, 0>>,
                      <<[characters |-> <<>>, width |-> 0]>>) :
       marked \in {WrapFirstPass(characters, 1,
                                 wrap_width_get(wrap_width, image_x),
                                 <<0, 0>>, 0)}})

RECURSIVE TextsOfLength(_)
TextsOfLength(n) ==
  IF n = 0 THEN {<<>>}
  ELSE {Append(t, ch) : t \in TextsOfLength(n - 1), ch \in TextChars}

InitWrap ==
  /\ \E n \in 0 .. MaxTextLen, wrap_width \in WrapWidths,
        image_x \in WrapImageWidths, nul_advance \in {0, 1} :
       \E text \in TextsOfLength(n) :
         wrap = [text |-> text, wrap_width |-> wrap_width,
                 image_x |-> image_x, nul_advance |-> nul_advance,
                 pc |-> "ready", characters |-> <<>>, lines |-> <<>>]
  /\ OthersIdleWrap

\* calc_text_runtime: the character list is built.
WrapBuildCharacters ==
  /\ wrap.pc = "ready"
  /\ wrap' = [wrap EXCEPT
                !.pc = "built",
                !.characters = build_character_info(wrap.text,
                                                    wrap.nul_advance)]

\* calc_text_runtime: the characters are put into lines.
WrapApply ==
  /\ wrap.pc = "built"
  /\ wrap' = [wrap EXCEPT
                !.pc = "done",
                !.lines = apply_word_wrapping(wrap.wrap_width, wrap.image_x,
                                              wrap.characters)]

NextWrap ==
  \/ WrapBuildCharacters /\ UNCHANGED othersWrap
  \/ WrapApply /\ UNCHANGED othersWrap

SpecWrap == InitWrap /\ [][NextWrap]_vars

RECURSIVE AdvanceSum(_, _)
AdvanceSum(characters, n) ==
  IF n = 0 THEN 0 ELSE characters[n].advance_x + AdvanceSum(characters, n - 1)

\* The layout of a text without newlines at wrap width 0 is done.
UnwrappedDone ==
  /\ wrap.pc = "done"
  /\ wrap.wrap_width = RZero
  /\ \A i \in 1 .. Len(wrap.text) : wrap.text[i] # "\n"

\* C16 as stated: one line with all the characters, whose width is the sum
\* of the advances of the characters in it.
C16_OneLineSumOfAll ==
  UnwrappedDone =>
    /\ Len(wrap.lines) = 1
    /\ Len(wrap.lines[1].characters) = Len(wrap.characters)
    /\ wrap.lines[1].width =
         AdvanceSum(wrap.lines[1].characters, Len(wrap.lines[1].characters))

\* C16: one line with all the characters in their order, whose width is the
\* sum of the advances of the characters of the text, the terminating entry
\* not counted.
C16_OneLineSumOfText ==
  UnwrappedDone =>
    /\ Len(wrap.lines) = 1
    /\ Len(wrap.lines[1].characters) = Len(wrap.characters)
    /\ \A i \in 1 .. Len(wrap.characters) :
         wrap.lines[1].characters[i].str = wrap.characters[i].str
    /\ wrap.lines[1].width = AdvanceSum(wrap.characters, Len(wrap.text))

\* A text of four characters with spaces, wider than the image, was laid out
\* at wrap width 0 into one line of width 8.
C16_Witness ==
  /\ UnwrappedDone
  /\ wrap.text = <<"M", " ", "M", " ">>
  /\ wrap.image_x = 4
  /\ Len(wrap.lines) = 1
  /\ wrap.lines[1].width = 8

\* The characters of the lines from line k on, one after the other.
RECURSIVE LinesJoined(_, _)
LinesJoined(lines, k) ==
  IF k > Len(lines) THEN <<>>
  ELSE lines[k].characters \o LinesJoined(lines, k + 1)

\* A character after which a new line starts.
EndsLine(character) == character.do_wrap \/ character.str = "\n"

\* C29: the lines, one after the other, hold every entry of the character
\* list once and in its order; only spaces are flagged for wrapping; every
\* line but the last ends with a newline or a flagged space and no line
\* holds one before its end, so there are 1 + newlines + flagged spaces
\* lines and two characters that follow each other are in different lines
\* only when the first is a newline or a flagged space.
C29_LinesPartitionCharacters ==
  wrap.pc = "done" =>
    LET joined == LinesJoined(wrap.lines, 1)
    IN /\ Len(joined) = Len(wrap.characters)
       /\ \A i \in 1 .. Len(joined) :
            /\ joined[i].index = wrap.characters[i].index
            /\ joined[i].str = wrap.characters[i].str
            /\ joined[i].do_wrap => joined[i].str = " "
       /\ Len(wrap.lines) =
            1 + Cardinality({i \in 1 .. Len(joined) : EndsLine(joined[i])})
       /\ \A k \in 1 .. Len(wrap.lines) :
            LET line == wrap.lines[k].characters
            IN /\ Len(line) > 0
               /\ \A i \in 1 .. Len(line) :
                    EndsLine(line[i]) <=> (i = Len(line) /\ k < Len(wrap.lines))

\* A text with a newline and a space too far to the right was laid out
\* into three lines, the last with the terminating entry alone.
C29_Witness ==
  /\ wrap.pc = "done"
  /\ wrap.text = <<"M", " ", "M", "\n">>
  /\ wrap.wrap_width = Rat(1, 2)
  /\ wrap.image_x = 4
  /\ Len(wrap.lines) = 3
  /\ wrap.lines[1].characters[2].do_wrap
  /\ wrap.lines[3].characters[1].str = NulChar

(***************************************************************************)
(* do_text_effect: the drawing stages of a render and the font mutex       *)
(***************************************************************************)

\* A bug to compare with: the shadow drawn before the outline and the text.
TextStages_shadow_first == <<"shadow", "outline", "glyphs", "box">>

\* The drawing stages in the order of the statements of do_text_effect:
\* draw_text_outline, text_draw, draw_text_shadow, fill_rect_alpha_under.
TextStages == <<"outline", "glyphs", "shadow", "box">>

\* Whether a stage writes: the outline needs SEQ_TEXT_OUTLINE, a width and a
\* visible color, the shadow SEQ_TEXT_SHADOW, the box SEQ_TEXT_BOX.
StageEnabled(flag, stage) ==
  CASE stage = "outline" -> flag.outline
    [] stage = "glyphs" -> TRUE
    [] stage = "shadow" -> flag.shadow
    [] stage = "box" -> flag.box

TextFlags == [outline : BOOLEAN, shadow : BOOLEAN, box : BOOLEAN]

NoTextCall ==
  [pc |-> "idle", flag |-> [outline |-> FALSE, shadow |-> FALSE,
                           box |-> FALSE],
   stage |-> 0, writing |-> "none", log |-> <<>>]

InitText ==
  /\ txt = [t \in Threads |-> NoTextCall]
  /\ txt_mutex = [owner |-> "none", count |-> 0]
  /\ OthersIdleText

\* A thread calls do_text_effect on a strip: the output is allocated.
TextCall(t) ==
  /\ txt[t].pc \in {"idle", "returned"}
  /\ \E flag \in TextFlags :
       txt' = [txt EXCEPT ![t] = [NoTextCall EXCEPT !.pc = "lock",
                                                    !.flag = flag]]
  /\ UNCHANGED txt_mutex

\* std::lock_guard lock(g_font_map.mutex)
TextLock(t) ==
  /\ txt[t].pc = "lock"
  /\ txt_mutex.owner \in {"none", t}
  /\ txt_mutex' = [owner |-> t, count |-> txt_mutex.count + 1]
  /\ txt' = [txt EXCEPT ![t].pc = "font_init"]

\* text_effect_font_init and calc_text_runtime; a load of the font takes the
\* recursive mutex once more and gives it back.
TextFontInit(t) ==
  /\ txt[t].pc = "font_init"
  /\ txt_mutex.owner = t
  /\ txt' = [txt EXCEPT ![t].pc = "stages", ![t].stage = 1]
  /\ UNCHANGED txt_mutex

\* The next stage starts to write the output buffer.
TextStageBegin(t) ==
  /\ txt[t].pc = "stages"
  /\ txt[t].stage <= Len(TextStages)
  /\ txt[t].writing = "none"
  /\ StageEnabled(txt[t].flag, TextStages[txt[t].stage])
  /\ txt' = [txt EXCEPT ![t].writing = TextStages[txt[t].stage]]
  /\ UNCHANGED txt_mutex

\* The stage has written the output buffer and returns.
TextStageEnd(t) ==
  /\ txt[t].pc = "stages"
  /\ txt[t].writing # "none"
  /\ txt' = [txt EXCEPT ![t].writing = "none",
                        ![t].log = Append(txt[t].log, txt[t].writing),
                        ![t].stage = txt[t].stage + 1]
  /\ UNCHANGED txt_mutex

\* The next stage is not enabled and writes nothing.
TextStageSkip(t) ==
  /\ txt[t].pc = "stages"
  /\ txt[t].stage <= Len(TextStages)
  /\ txt[t].writing = "none"
  /\ ~StageEnabled(txt[t].flag, TextStages[txt[t].stage])
  /\ txt' = [txt EXCEPT ![t].stage = txt[t].stage + 1]
  /\ UNCHANGED txt_mutex

\* return out: the lock_guard goes out of scope.
TextReturn(t) ==
  /\ txt[t].pc = "stages"
  /\ txt[t].stage > Len(TextStages)
  /\ txt_mutex' = [owner |-> IF txt_mutex.count = 1 THEN "none" ELSE t,
                   count |-> txt_mutex.count - 1]
  /\ txt' = [txt EXCEPT ![t].pc = "returned"]

NextText ==
  \/ \E t \in Threads : TextCall(t) /\ UNCHANGED othersText
  \/ \E t \in Threads : TextLock(t) /\ UNCHANGED othersText
  \/ \E t \in Threads : TextFontInit(t) /\ UNCHANGED othersText
  \/ \E t \in Threads : TextStageBegin(t) /\ UNCHANGED othersText
  \/ \E t \in Threads : TextStageEnd(t) /\ UNCHANGED othersText
  \/ \E t \in Threads : TextStageSkip(t) /\ UNCHANGED othersText
  \/ \E t \in Threads : TextReturn(t) /\ UNCHANGED othersText

SpecText == InitText /\ [][NextText]_vars

\* The place of a stage in the order outline, glyphs, shadow, box.
StageRank(stage) ==
  CASE stage = "outline" -> 1
    [] stage = "glyphs" -> 2
    [] stage = "shadow" -> 3
    [] stage = "box" -> 4

\* The enabled stages of rank below n have all finished.
EarlierFinished(r, n) ==
  \A stage \in {"outline", "glyphs", "shadow", "box"} :
    StageEnabled(r.flag, stage) /\ StageRank(stage) < n =>
      \E i \in DOMAIN r.log : r.log[i] = stage

\* C17: in a do_text_effect call the enabled stages run in the order
\* outline, glyphs, shadow, box, each at most once and each after the one
\* before has finished; the thread holds the font mutex from before the font
\* initialisation until after the last stage and not after the return.
C17_StagesOrderedUnderMutex ==
  \A t \in Threads :
    /\ \A i, j \in DOMAIN txt[t].log :
         i < j => StageRank(txt[t].log[i]) < StageRank(txt[t].log[j])
    /\ \A i \in DOMAIN txt[t].log : StageEnabled(txt[t].flag, txt[t].log[i])
    /\ txt[t].writing # "none" =>
         /\ \A i \in DOMAIN txt[t].log :
              StageRank(txt[t].log[i]) < StageRank(txt[t].writing)
         /\ EarlierFinished(txt[t], StageRank(txt[t].writing))
    /\ txt[t].pc \in {"font_init", "stages"} => txt_mutex.owner = t
    /\ txt[t].pc \in {"idle", "lock", "returned"} => txt_mutex.owner # t
    /\ txt[t].pc = "returned" => EarlierFinished(txt[t], 5)

\* A thread has returned from a render with all four stages while the other
\* thread writes the shadow of its own render.
C17_Witness ==
  /\ txt["t1"].pc = "returned"
  /\ txt["t1"].log = <<"outline", "glyphs", "shadow", "box">>
  /\ txt["t2"].writing = "shadow"
  /\ txt_mutex.owner = "t2"

(***************************************************************************)
(* The early-out of the effects that take no input strips                  *)
(***************************************************************************)

NoInputTypes == {"COLOR", "MULTICAM", "ADJUSTMENT", "TEXT"}

\* TextVars as SEQ_effects_can_render_text reads it: the size, the alpha of
\* the three colors, the outline width and the two flag bits.
TextSizes == {RZero, Rat(1, 2), ROne, Rat(30, 1)}
TextAlphas == {RZero, ROne}
TextOutlineWidths == {RZero, Rat(1, 20)}

TextBlocks ==
  [text_size : TextSizes, color_a : TextAlphas, shadow_a : TextAlphas,
   outline_a : TextAlphas, outline_width : TextOutlineWidths,
   SEQ_TEXT_SHADOW : BOOLEAN, SEQ_TEXT_OUTLINE : BOOLEAN]

\* The parameter block of a strip that is not a text strip is not read.
OtherBlock == [text_size |-> RZero]

\* Nothing to draw when the size is below 1, or when the text, the enabled
\* shadow and the enabled outline are all invisible.
SEQ_effects_can_render_text(data) ==
  ~ ( \/ RLt(data.text_size, ROne)
      \/ /\ data.color_a = RZero
         /\ (data.shadow_a = RZero \/ ~ data.SEQ_TEXT_SHADOW)
         /\ ( \/ data.outline_a = RZero
              \/ RLe(data.outline_width, RZero)
              \/ ~ data.SEQ_TEXT_OUTLINE))

early_out_color(data, fac) == "NoInput"

early_out_multicam(data, fac) == "NoInput"

early_out_adjustment(data, fac) == "NoInput"

early_out_text(data, fac) ==
  IF ~ SEQ_effects_can_render_text(data) THEN "UseInput1" ELSE "NoInput"

\* The early_out callback a handle of these types names, applied.
early_out_no_input(name, data, fac) ==
  CASE name = "early_out_color" -> early_out_color(data, fac)
    [] name = "early_out_multicam" -> early_out_multicam(data, fac)
    [] name = "early_out_adjustment" -> early_out_adjustment(data, fac)
    [] name = "early_out_text" -> early_out_text(data, fac)

InitEarly ==
  /\ \E type \in NoInputTypes, fac \in Factors :
       \E data \in (IF type = "TEXT" THEN TextBlocks ELSE {OtherBlock}) :
         eout = [type |-> type, data |-> data, fac |-> fac,
                 pc |-> "query", result |-> "none"]
  /\ OthersIdleEarly

\* The renderer asks the strip's handle whether the effect has to run.
EarlyOutQuery ==
  /\ eout.pc = "query"
  /\ \E sh \in {get_sequence_effect_impl(eout.type)} :
       eout' = [eout EXCEPT
                  !.result = early_out_no_input(sh.early_out, eout.data,
                                                eout.fac),
                  !.pc = "done"]

NextEarly ==
  EarlyOutQuery /\ UNCHANGED othersEarly

SpecEarly == InitEarly /\ [][NextEarly]_vars

\* C18: the early-out of a solid color, multicam, adjustment or text strip
\* is NoInput, whatever the parameter block and the factor.
C18_AlwaysNoInput ==
  eout.pc = "done" => eout.result = "NoInput"

\* What the code does give: NoInput for the three other types, and for a
\* text strip exactly when it has something to draw.
NoInputUnlessTextInvisible ==
  eout.pc = "done" =>
    (eout.result = "NoInput" <=>
       (eout.type = "TEXT" => SEQ_effects_can_render_text(eout.data)))

(***************************************************************************)
(* Color mix: the strip-level factor and the factor of the parameter block *)
(***************************************************************************)

\* The two renders that are compared.
MixRuns == {1, 2}

\* static void init_colormix_effect(Sequence *seq): the block, with the
\* blend function the model has in place of overlay.
init_colormix_effect == [blend_effect |-> "ADD", factor |-> FacDen]

\* static void do_colormix_effect(...) on a byte pixel: the strip-level fac
\* is not read, do_blend_effect_byte gets data->factor and
\* data->blend_effect.
do_colormix_effect(data, fac, src1, src2) ==
  CASE data.blend_effect = "ADD" -> blend_pixel_byte(data.factor, src1, src2)

\* The render of an effect strip with a byte pixel per input: the handle's
\* early_out on the strip-level factor, then a copy of input 1 or the
\* handle's executor.
seq_render_colormix(sh, data, fac, ibuf1, ibuf2) ==
  IF early_out(sh.early_out, fac) = "UseInput1" THEN ibuf1
  ELSE CASE sh.execute_slice = "do_colormix_effect" ->
              do_colormix_effect(data, fac, ibuf1, ibuf2)

InitMix ==
  /\ \E factor \in Factors, ibuf1, ibuf2 \in BytePixelSet,
        fac1, fac2 \in Factors :
       mix = [data |-> [init_colormix_effect EXCEPT !.factor = factor],
              ibuf1 |-> ibuf1, ibuf2 |-> ibuf2,
              fac |-> <<fac1, fac2>>, out |-> <<<<>>, <<>>>>]
  /\ OthersIdleMix

\* One of the two renders of the strip, with its strip-level factor.
MixRender(run) ==
  /\ mix.out[run] = <<>>
  /\ \E sh \in {get_sequence_effect_impl("COLORMIX")} :
       mix' = [mix EXCEPT
                 !.out[run] = seq_render_colormix(sh, mix.data, mix.fac[run],
                                                  mix.ibuf1, mix.ibuf2)]

NextMix ==
  \E run \in MixRuns : MixRender(run) /\ UNCHANGED othersMix

SpecMix == InitMix /\ [][NextMix]_vars

MixBothDone == mix.out[1] # <<>> /\ mix.out[2] # <<>>

\* C23: two renders of a color-mix strip with the same parameter block and
\* inputs give the same output whatever their strip-level factors are.
C23_StripFactorIgnored ==
  MixBothDone => mix.out[1] = mix.out[2]

\* What does hold: the outputs are the same when the strip-level factors
\* are both 0 or both not 0.
StripFactorIgnoredUnlessZero ==
  MixBothDone /\ (mix.fac[1] = 0 <=> mix.fac[2] = 0) =>
    mix.out[1] = mix.out[2]

(***************************************************************************)
(* Glow on a float image. A pixel is four rationals; the float arithmetic  *)
(* is taken as exact.                                                      *)
(***************************************************************************)

GlowWidth == 2
GlowHeight == 2
GlowPixels == 0 .. GlowWidth * GlowHeight - 1

\* The blur distances a strip may hold, at a render size of 100 and the
\* quality 3 of init_glow_effect: no blur, a blur whose half width is
\* int(4 * 1/8) = 0, and one whose half width is 1.
GlowDists == {RZero, Rat(1, 8), Rat(1, 4)}

\* The pixels of the inputs: black, a dim one below the threshold, a mid
\* grey and white.
GlowColors ==
  {<<RZero, RZero, RZero, ROne>>, <<Rat(1, 4), Rat(1, 4), RZero, ROne>>,
   <<Rat(1, 2), Rat(1, 2), Rat(1, 4), ROne>>, <<ROne, ROne, ROne, ROne>>}

\* static void init_glow_effect(Sequence *seq)
init_glow_effect ==
  [fMini |-> Rat(1, 4), fClamp |-> ROne, fBoost |-> Rat(1, 2),
   dDist |-> Rat(3, 1), dQuality |-> 3, bNoComp |-> 0]

\* exp(x) at the one point the filters of the model need.
glow_exp(x) == CASE x = RZero -> ROne

\* The filter of glow_blur_bitmap before it is normalised: entries
\* 1 .. 2 * halfWidth - 1 from the loop, entry 0 the last weight computed.
glow_filter_weights(halfWidth, k) ==
  [j \in 0 .. 2 * halfWidth - 1 |->
     IF j = 0
       THEN glow_exp(RMul(k, Rat((halfWidth - 1) * (halfWidth - 1), 1)))
       ELSE glow_exp(RMul(k, Rat((j - halfWidth) * (j - halfWidth), 1)))]

\* The normalised filter.
glow_filter(halfWidth, dist) ==
  The({[j \in DOMAIN w |-> RMul(w[j], RInv(RSum(w, 0, 2 * halfWidth - 1)))] :
       w \in {glow_filter_weights(
                halfWidth,
                RSub(RZero, RInv(RMul(RMul(Rat(2, 1), M_PI),
                                      RMul(dist, dist)))))}})

\* The taps lo .. hi - 1 of one output pixel summed with their weights; the
\* tap n reads pixel at(n).
RECURSIVE GlowTaps(_, _, _, _, _, _)
GlowTaps(map, filter, at, n, hi, index) ==
  IF n >= hi THEN <<RZero, RZero, RZero, RZero>>
  ELSE The({[c \in 1 .. 4 |->
               RAdd(RMul(map[at[n]][c], filter[index]), rest[c])] :
            rest \in {GlowTaps(map, filter, at, n + 1, hi, index + 1)}})

\* Blur the rows: read map, write temp.
glow_blur_rows(map, width, height, halfWidth, filter) ==
  [i \in 0 .. width * height - 1 |->
     GlowTaps(map, filter,
              [nx \in 0 .. width - 1 |-> nx + (i \div width) * width],
              Max((i % width) - halfWidth, 0),
              Min((i % width) + halfWidth, width),
              (Max((i % width) - halfWidth, 0) - (i % width)) + halfWidth)]

\* Blur the columns: read temp, write map; the original is added and the
\* sum clamped to 1 when src is given, <<>> standing for nullptr.
glow_blur_columns(src, temp, width, height, halfWidth, filter) ==
  [i \in 0 .. width * height - 1 |->
     The({IF src # <<>>
            THEN [c \in 1 .. 4 |-> RMin(ROne, RAdd(src[i][c], curColor[c]))]
            ELSE curColor :
          curColor \in
            {GlowTaps(temp, filter,
                      [ny \in 0 .. height - 1 |-> (i % width) + ny * width],
                      Max((i \div width) - halfWidth, 0),
                      Min((i \div width) + halfWidth, height),
                      (Max((i \div width) - halfWidth, 0) - (i \div width))
                        + halfWidth)}})]

\* static void glow_blur_bitmap(src, map, width, height, blur, quality),
\* with dist for the parameter blur: the
\* map after the call.
glow_blur_bitmap(src, map, width, height, dist, quality) ==
  IF RLe(dist, RZero) THEN map
  ELSE The({IF halfWidth = 0 THEN map
            ELSE The({glow_blur_columns(
                        src,
                        glow_blur_rows(map, width, height, halfWidth, filter),
                        width, height, halfWidth, filter) :
                      filter \in {glow_filter(halfWidth, dist)}}) :
            halfWidth \in {Trunc(RMul(Rat(quality + 1, 1), dist))}})

\* static void blur_isolate_highlights(in, out, width, height, threshold,
\* boost, clamp): the out buffer.
blur_isolate_highlights(in, width, height, threshold, boost, clamp) ==
  [i \in 0 .. width * height - 1 |->
     The({IF RLt(RZero, intensity)
            THEN [c \in 1 .. 4 |->
                    RMin(clamp, RMul(in[i][c], RMul(boost, intensity)))]
            ELSE <<RZero, RZero, RZero, RZero>> :
          intensity \in {RSub(RAdd(RAdd(in[i][1], in[i][2]), in[i][3]),
                              threshold)}})]

\* static void do_glow_effect_float(...): the first call, the highlights.
do_glow_effect_float_isolate(data, fac, x, y, inbuf) ==
  blur_isolate_highlights(inbuf, x, y, RMul(data.fMini, Rat(3, 1)),
                          RMul(data.fBoost, FacOf(fac)), data.fClamp)

\* static void do_glow_effect_float(...): the second call, on the
\* highlights in outbuf.
do_glow_effect_float_blur(data, render_size, x, y, inbuf, outbuf) ==
  glow_blur_bitmap(IF data.bNoComp # 0 THEN <<>> ELSE inbuf, outbuf,
                   x, y, RMul(data.dDist, Rat(render_size, 100)),
                   data.dQuality)

GlowImages ==
  {[i \in GlowPixels |-> IF i = 0 THEN a ELSE IF i % 2 = 1 THEN b ELSE c] :
     a, b, c \in GlowColors}

InitGlow ==
  /\ \E dDist \in GlowDists, bNoComp \in {0, 1}, fac \in Factors,
        inbuf \in GlowImages :
       glow = [data |-> [init_glow_effect EXCEPT !.dDist = dDist,
                                                  !.bNoComp = bNoComp],
               fac |-> fac, inbuf |-> inbuf, pc |-> "isolate",
               highlights |-> <<>>, outbuf |-> <<>>]
  /\ OthersIdleGlow

\* do_glow_effect_float: the highlights of the input go to the output.
GlowIsolate ==
  /\ glow.pc = "isolate"
  /\ glow' = [glow EXCEPT
                !.pc = "blur",
                !.outbuf = do_glow_effect_float_isolate(
                             glow.data, glow.fac, GlowWidth, GlowHeight,
                             glow.inbuf)]

\* do_glow_effect_float: the highlights are blurred and composited.
GlowBlur ==
  /\ glow.pc = "blur"
  /\ glow' = [glow EXCEPT
                !.pc = "done",
                !.highlights = glow.outbuf,
                !.outbuf = do_glow_effect_float_blur(
                             glow.data, 100, GlowWidth, GlowHeight,
                             glow.inbuf, glow.outbuf)]

NextGlow ==
  \/ GlowIsolate /\ UNCHANGED othersGlow
  \/ GlowBlur /\ UNCHANGED othersGlow

SpecGlow == InitGlow /\ [][NextGlow]_vars

\* The highlight layer of a finished render after its blur, without the
\* original: the highlights themselves when the blur is skipped.
GlowLayer ==
  glow_blur_bitmap(<<>>, glow.highlights, GlowWidth, GlowHeight,
                   glow.data.dDist, glow.data.dQuality)

\* The original plus the layer, clamped to 1.
GlowComposite(layer) ==
  [i \in GlowPixels |->
     [c \in 1 .. 4 |-> RMin(ROne, RAdd(glow.inbuf[i][c], layer[i][c]))]]

\* Whether glow_blur_bitmap blurs: the distance is positive and the half
\* width is not 0.
GlowBlurs ==
  /\ RLt(RZero, glow.data.dDist)
  /\ Trunc(RMul(Rat(glow.data.dQuality + 1, 1), glow.data.dDist)) # 0

\* C24: with bNoComp = 0 the output is the original plus the blurred
\* highlight layer clamped to 1, for every blur distance, the ones for
\* which the blur is skipped included; with bNoComp set it is the layer.
C24_GlowComposited ==
  glow.pc = "done" =>
    glow.outbuf = IF glow.data.bNoComp = 0 THEN GlowComposite(GlowLayer)
                  ELSE GlowLayer

\* What does hold: the output is composited when bNoComp is 0 and the blur
\* runs; it is the highlight layer alone when bNoComp is set or the blur is
\* skipped.
GlowCompositedWhenBlurred ==
  glow.pc = "done" =>
    glow.outbuf = IF glow.data.bNoComp = 0 /\ GlowBlurs
                    THEN GlowComposite(GlowLayer)
                    ELSE GlowLayer

(***************************************************************************)
(* Add, subtract and multiply: what the early-out announces against what   *)
(* the executor writes                                                     *)
(***************************************************************************)

\* Byte pixels and float pixels of every alpha.
ZeroBytePixels == {<<c, 255 - c, 7, a>> : c \in ByteVals, a \in ByteAlphas}

ZeroUnitVals == {RZero, Rat(1, 2), ROne}

ZeroFloatPixels ==
  {<<c, RSub(ROne, c), Rat(1, 4), a>> : c \in ZeroUnitVals, a \in ZeroUnitVals}

InitZero ==
  /\ \E effect \in EquivEffects, is_float \in BOOLEAN, fac \in Factors :
       \E ibuf1, ibuf2 \in
            (IF is_float THEN ZeroFloatPixels ELSE ZeroBytePixels) :
         zf = [effect |-> effect, is_float |-> is_float, fac |-> fac,
               ibuf1 |-> ibuf1, ibuf2 |-> ibuf2, pc |-> "ready",
               early |-> "none", out |-> <<>>]
  /\ OthersIdleZero

\* The handle's early_out is asked, and the handle's executor is run on the
\* same arguments.
ZeroExecute ==
  /\ zf.pc = "ready"
  /\ \E sh \in {get_sequence_effect_impl(zf.effect)} :
       zf' = [zf EXCEPT
                !.pc = "done",
                !.early = early_out(sh.early_out, zf.fac),
                !.out = do_blend_effect(zf.effect, zf.is_float, zf.fac,
                                        zf.ibuf1, zf.ibuf2)]

NextZero == ZeroExecute /\ UNCHANGED othersZero

SpecZero == InitZero /\ [][NextZero]_vars

\* C25: at factor 0 the early-out of add, subtract and multiply is
\* UseInput1, and the executor, byte or float, writes input 1, whatever the
\* alpha of the inputs.
C25_EarlyOutAgreesAtZero ==
  zf.pc = "done" /\ zf.fac = 0 =>
    zf.early = "UseInput1" /\ zf.out = zf.ibuf1

\* What does hold: the early-out is UseInput1 at factor 0; the byte
\* executors and the float multiply write input 1, and the float add and
\* subtract do when input 1 is opaque or input 2 is transparent.
EarlyOutAgreesAtZeroByteOrOpaque ==
  zf.pc = "done" /\ zf.fac = 0 =>
    /\ zf.early = "UseInput1"
    /\ ( \/ ~zf.is_float
         \/ zf.effect = "MUL"
         \/ zf.ibuf1[4] = ROne
         \/ zf.ibuf2[4] = RZero ) => zf.out = zf.ibuf1

(***************************************************************************)
(* Speed strips in multiply mode: the frame map over init, load, copy,     *)
(* changes of the strip bounds and lookups                                 *)
(***************************************************************************)

\* The most frames a strip has, and the addresses of frame maps.
MaxMapLen == 2
MaxMapAddrs == 2
MapAddrs == 1 .. MaxMapAddrs

\* The left handles a strip may be created with.
MapLefts == {0, 1}

NoMapStrip ==
  [exists |-> FALSE, not_loaded |-> FALSE, left |-> 0, right |-> 0,
   has_fcurve |-> FALSE, frameMap |-> 0]

\* The strips and the heap of the operations below, as one record.
MapState == [strips |-> map_strips, heap |-> map_heap]

\* SEQ_time_right_handle_frame_get - SEQ_time_left_handle_frame_get
effect_strip_length(strip) == strip.right - strip.left

\* void seq_effect_speed_rebuild_map(Scene *scene, Sequence *seq), on a
\* strip with an input: nothing without frames or without a curve; else
\* the old map is freed and one of effect_strip_length floats allocated.
speed_rebuild_map(st, s) ==
  IF effect_strip_length(st.strips[s]) < 1 THEN st
  ELSE IF ~st.strips[s].has_fcurve THEN st
  ELSE The({The({[st EXCEPT
                    !.heap = [freed EXCEPT
                                ![a] = effect_strip_length(st.strips[s])],
                    !.strips[s].frameMap = a] :
                 a \in {MinOf({b \in MapAddrs : freed[b] = 0})}}) :
            freed \in {IF st.strips[s].frameMap # 0
                         THEN [st.heap EXCEPT ![st.strips[s].frameMap] = 0]
                         ELSE st.heap}})

\* static void seq_effect_speed_frame_map_ensure(Scene *scene, Sequence *seq)
speed_frame_map_ensure(st, s) ==
  IF st.strips[s].frameMap # 0 THEN st ELSE speed_rebuild_map(st, s)

\* SEQ_effect_handle_get on a speed strip: load_speed_effect runs if
\* SEQ_EFFECT_NOT_LOADED is set, and the flag is cleared.
speed_handle_get(st, s) ==
  IF st.strips[s].not_loaded
    THEN [st EXCEPT !.strips[s].frameMap = 0, !.strips[s].not_loaded = FALSE]
    ELSE st

\* A bug to compare with: the copy keeps the pointer of the source.
copy_speed_map_shared(src_strip) == src_strip

\* static void copy_speed_effect(...): MEM_dupallocN, then frameMap = nullptr.
copy_speed_map(src_strip) == [src_strip EXCEPT !.frameMap = 0]

\* round_fl_to_int(SEQ_give_frame_index(scene, seq_speed, timeline_frame)),
\* for a frame of the strip.
speed_frame_index(strip, timeline_frame) == timeline_frame - strip.left

MapBecomes(st) ==
  /\ map_strips' = st.strips
  /\ map_heap' = st.heap

InitMap ==
  /\ map_strips = [s \in Strips |-> NoMapStrip]
  /\ map_heap = [a \in MapAddrs |-> 0]
  /\ map_last = [op |-> "none"]
  /\ OthersIdleMap

\* A strip is added: init_speed_effect callocs its block.
MapAddStrip(s) ==
  /\ ~map_strips[s].exists
  /\ \E left \in MapLefts, len \in 1 .. MaxMapLen, has_fcurve \in BOOLEAN :
       map_strips' = [map_strips EXCEPT
                        ![s] = [exists |-> TRUE, not_loaded |-> FALSE,
                                left |-> left, right |-> left + len,
                                has_fcurve |-> has_fcurve, frameMap |-> 0]]
  /\ map_last' = [op |-> "none"]
  /\ UNCHANGED map_heap

\* A strip comes out of a file: SEQ_EFFECT_NOT_LOADED is set and the frame
\* map pointer is whatever the file held.
MapReadStrip(s) ==
  /\ ~map_strips[s].exists
  /\ \E left \in MapLefts, len \in 1 .. MaxMapLen, has_fcurve \in BOOLEAN :
       map_strips' = [map_strips EXCEPT
                        ![s] = [exists |-> TRUE, not_loaded |-> TRUE,
                                left |-> left, right |-> left + len,
                                has_fcurve |-> has_fcurve,
                                frameMap |-> StalePointer]]
  /\ map_last' = [op |-> "none"]
  /\ UNCHANGED map_heap

\* The strip src is duplicated as dst: the copy callback of
\* SEQ_effect_handle_get(src); the copy's flag is that of the source, taken
\* before or after that call.
MapCopy(src, dst) ==
  /\ map_strips[src].exists
  /\ ~map_strips[dst].exists
  /\ \E dst_flag \in {map_strips[src].not_loaded, FALSE}, st \in {MapState} :
       \E got \in {speed_handle_get(st, src)} :
         MapBecomes([got EXCEPT
                       !.strips[dst] =
                          [copy_speed_map(got.strips[src]) EXCEPT
                             !.not_loaded = dst_flag]])
  /\ map_last' = [op |-> "none"]

\* The bounds of a loaded strip change, and with them the frame map is
\* rebuilt: seq_effect_speed_rebuild_map.
MapSetBounds(s) ==
  /\ map_strips[s].exists
  /\ ~map_strips[s].not_loaded
  /\ \E left \in MapLefts, len \in 0 .. MaxMapLen, st \in {MapState} :
       /\ <<left, left + len>> # <<st.strips[s].left, st.strips[s].right>>
       /\ MapBecomes(speed_rebuild_map(
                       [st EXCEPT !.strips[s].left = left,
                                  !.strips[s].right = left + len], s))
  /\ map_last' = [op |-> "none"]

\* seq_speed_effect_target_frame_get in multiply mode for a frame of the
\* strip: with a curve the frame map is ensured and read at the frame index.
MapLookup(s) ==
  /\ map_strips[s].exists
  /\ \E timeline_frame \in map_strips[s].left .. map_strips[s].right - 1,
        st \in {MapState} :
       \E got \in {speed_handle_get(st, s)} :
         IF got.strips[s].has_fcurve
           THEN /\ MapBecomes(speed_frame_map_ensure(got, s))
                /\ map_last' =
                     [op |-> "read", strip |-> s,
                      frame_index |->
                        speed_frame_index(got.strips[s], timeline_frame)]
           ELSE /\ MapBecomes(got)
                /\ map_last' = [op |-> "fader", strip |-> s,
                                frame_index |->
                                  speed_frame_index(got.strips[s],
                                                    timeline_frame)]

\* The strip is freed: free_speed_effect frees the map and the block.
MapFree(s) ==
  /\ map_strips[s].exists
  /\ \E st \in {MapState} :
       \E got \in {speed_handle_get(st, s)} :
         MapBecomes([got EXCEPT
                       !.heap = IF got.strips[s].frameMap # 0
                                  THEN [got.heap EXCEPT
                                          ![got.strips[s].frameMap] = 0]
                                  ELSE got.heap,
                       !.strips[s] = NoMapStrip])
  /\ map_last' = [op |-> "none"]

NextMap ==
  \/ \E s \in Strips : MapAddStrip(s) /\ UNCHANGED othersMap
  \/ \E s \in Strips : MapReadStrip(s) /\ UNCHANGED othersMap
  \/ \E src, dst \in Strips : MapCopy(src, dst) /\ UNCHANGED othersMap
  \/ \E s \in Strips : MapSetBounds(s) /\ UNCHANGED othersMap
  \/ \E s \in Strips : MapLookup(s) /\ UNCHANGED othersMap
  \/ \E s \in Strips : MapFree(s) /\ UNCHANGED othersMap

SpecMap == InitMap /\ [][NextMap]_vars

FrameMapsOwned ==
  \A s, t \in Strips :
    /\ map_strips[s].frameMap \in MapAddrs =>
         map_heap[map_strips[s].frameMap] > 0
    /\ s # t /\ map_strips[s].frameMap \in MapAddrs =>
         map_strips[s].frameMap # map_strips[t].frameMap

====
